---------------------------- MODULE Spec2Model ----------------------------
(***************************************************************************)
(* Model of the appointment-booking backend (upreach-Backend).             *)
(*                                                                         *)
(* The repository holds several generations of the same handlers:          *)
(*   /testdrive   src/unnamed/part_001:258   (pick_free_car, upsert,       *)
(*                                            rollback, freebusy degrades  *)
(*                                            to open)                     *)
(*                src/functions/index.js:803 (same, freebusy failure is a  *)
(*                                            server error)                *)
(*   book         src/unnamed/part_002:349 = src/unnamed/part_001:523      *)
(*                = src/functions/index.js:1029 (lead time, stats rows)    *)
(*                src/functions/index.js:66  (fixed configuration)         *)
(*   cancel       src/unnamed/part_001:677 = src/unnamed/part_002:503      *)
(*                src/functions/index.js:496                               *)
(*   findNearest  src/unnamed/part_001:783 = src/unnamed/part_002:609      *)
(*                src/functions/index.js:182                               *)
(*                                                                         *)
(* Conventions.  Instants are whole minutes on the UTC time line.  A wall  *)
(* clock time is the instant plus the zone's offset; hour and minute are   *)
(* taken from it modulo one day.  Fractional office hours (7.5 = 07:30)    *)
(* are kept as minutes of the day (450), so `h < officeStart` on hours is  *)
(* `60 * h < officeStart` here.  A text is a sequence of one-character     *)
(* strings so that trim() and toLowerCase() are computed, not assumed.     *)
(* An absent (undefined / empty) request field is the empty text <<>> or   *)
(* the number Absent.                                                      *)
(***************************************************************************)
EXTENDS Integers, Sequences, FiniteSets, TLC

\* ------------------------------------------------------------------ bounds

\* Requests handled over one run, any number of them in flight together.
NumProcs == 2
\* /testdrive requests handled over one run of the race of two customers.
RaceProcs == 3
\* Times the wall clock advances by ClockStep minutes over one run.
MaxTicks == 1
\* Dependency calls (calendar, store) that fail over one run.
MaxFaults == 2

\* ------------------------------------------------------- program constants

MinutesPerDay == 1440
MinutesPerHour == 60
\* `diffMinutes < 30`
MinLeadMin == 30
\* `minutesAway < 60`
MinCancelLeadMin == 60
\* DEFAULTS.testDriveDurationMin
TestDriveDurationMin == 30
\* /testdrive DEFAULTS.officeStart 7.5, officeEnd 20, maxOverlaps 3
TdOfficeStart == 450
TdOfficeEnd == 1200
TdMaxOverlaps == 3
\* book DEFAULTS: officeStart 9, officeEnd 17, durationMin 15, maxOverlaps 5
BookOfficeStart == 540
BookOfficeEnd == 1020
BookDurationMin == 15
BookMaxOverlaps == 5
\* the first generation of book: OFFICE_START, OFFICE_END, DURATION_MIN, MAX_OVERLAPS
V1OfficeStart == 540
V1OfficeEnd == 1020
V1DurationMin == 60
V1MaxOverlaps == 5
\* DEFAULTS.durationMin of the second program of index.js (its other
\* defaults are those of part_002)
V2DurationMin == 60
\* findNearest: step 15 minutes, window 8 hours
StepMin == 15
WindowMin == 480
\* cancel: .limit(10) candidates
CancelLimit == 10

\* An absent numeric request field.
Absent == -1

\* -------------------------------------------------------------------- text

LowerChar(c) ==
  CASE c = "A" -> "a"
    [] c = "B" -> "b"
    [] c = "N" -> "n"
    [] c = "O" -> "o"
    [] c = "R" -> "r"
    [] c = "Q" -> "q"
    [] c = "X" -> "x"
    [] OTHER -> c

\* String.prototype.toLowerCase
ToLowerCase(s) == [i \in 1..Len(s) |-> LowerChar(s[i])]

RECURSIVE TrimStart(_)
TrimStart(s) ==
  IF s # <<>> /\ Head(s) = " " THEN TrimStart(Tail(s)) ELSE s

RECURSIVE TrimEnd(_)
TrimEnd(s) ==
  IF s # <<>> /\ s[Len(s)] = " " THEN TrimEnd(SubSeq(s, 1, Len(s) - 1)) ELSE s

\* String.prototype.trim
Trim(s) == TrimEnd(TrimStart(s))

\* -------------------------------------------------------------------- time

\* Offset of the zone's wall clock from UTC, in minutes (standard time).
ZoneOffset(tz) ==
  CASE tz = "America/Chicago" -> -360
    [] tz = "America/Vancouver" -> -480
    [] OTHER -> 0

\* DateTime.fromISO(bookingTime, { zone }): the wall clock time `local` of
\* zone tz as an instant.
FromLocal(local, tz) == local - ZoneOffset(tz)

ToLocal(t, tz) == t + ZoneOffset(tz)

\* luxon .hour and .minute of instant t seen in zone tz
HourOf(t, tz) == (ToLocal(t, tz) % MinutesPerDay) \div MinutesPerHour

MinuteOf(t, tz) == ToLocal(t, tz) % MinutesPerHour

\* Minute of the local day: 60 * (hour + minute / 60).
MinuteOfDay(t, tz) == ToLocal(t, tz) % MinutesPerDay

\* ------------------------------------------------------------ office hours

\* /testdrive: h0 = hour + minute/60, h1 likewise; reject when
\* h0 < officeStart || h1 > officeEnd.
OutsideHoursFractional(start, end, tz, officeStart, officeEnd) ==
  \/ MinuteOfDay(start, tz) < officeStart
  \/ MinuteOfDay(end, tz) > officeEnd

\* The whole-hour rule without its test of the end minute (not the code:
\* a variant the properties must tell from it).
OutsideHoursWholeHourLax(start, end, tz, officeStart, officeEnd) ==
  \/ MinutesPerHour * HourOf(start, tz) < officeStart
  \/ MinutesPerHour * HourOf(end, tz) > officeEnd

\* book and findNearest: h0 = start hour, h1 = end hour, m1 = end minute;
\* reject when h0 < officeStart || h1 > officeEnd || (h1 === officeEnd && m1 > 0).
OutsideHoursWholeHour(start, end, tz, officeStart, officeEnd) ==
  \/ MinutesPerHour * HourOf(start, tz) < officeStart
  \/ MinutesPerHour * HourOf(end, tz) > officeEnd
  \/ (MinutesPerHour * HourOf(end, tz) = officeEnd /\ MinuteOf(end, tz) > 0)

\* ------------------------------------------------------------------- state

VARIABLES
  now,      \* the wall clock: the current instant
  ticks,    \* times the clock has advanced
  cal,      \* the calendar service: calendar id -> set of events
  appts,    \* the store's "appointments" table: a set of rows
  stats,    \* the store's "stats" table: a set of rows
  proc,     \* the handlers: slot -> position, request, locals, response
  faults    \* dependency calls that have failed so far

vars == <<now, ticks, cal, appts, stats, proc, faults>>

\* The slots of the run.
Procs == DOMAIN proc

\* Texts used by the requests and the fixtures.
NoText == <<>>
Ann == <<"A", "n", "n">>
AnnSpaced == <<" ", "a", "n", "n", " ">>
Bob == <<"B", "o", "b">>
AnnMail == <<"a", "@", "x">>
AnnMailUpper == <<"A", "@", "X">>
BobPhone == <<"5", "5">>
ModelR8 == <<"R", "8">>
ModelR8Lower == <<"r", "8">>
ModelQ5 == <<"Q", "5">>
ModelA8 == <<"A", "8">>
TrimBase == <<"b", "a", "s", "e">>
ModelX5 == <<"x","5">>

TrimSport == <<"s", "p", "o", "r", "t">>

Biz == "biz1"
OtherBiz == "biz2"
MainCal == "main"
HoldCal == "hold"
NoCal == ""
CalIds == {MainCal, HoldCal}

\* The first instant of the run: 09:00 in America/Chicago on day 1.
Now0 == FromLocal(MinutesPerDay + 9 * MinutesPerHour, "America/Chicago")
\* The clock advances in steps of this many minutes.
ClockStep == MinLeadMin

\* No car / no row / no event (JS null).
Null == 0

\* The id the store or the calendar gives to what handler p creates: ids
\* are opaque and never reused, and a handler creates at most one row and
\* one event.
FreshId(p) == p

\* The "cars" table (inventory, owned outside the core): one unit of the
\* R8, two units of the Q5 with different trims, an inactive A8, and a unit
\* of another business.
Cars ==
  { [id |-> 1, business_id |-> Biz, model |-> ModelR8, trim |-> TrimSport, is_active |-> TRUE],
    [id |-> 2, business_id |-> Biz, model |-> ModelQ5, trim |-> TrimBase, is_active |-> TRUE],
    [id |-> 3, business_id |-> Biz, model |-> ModelQ5, trim |-> TrimSport, is_active |-> TRUE],
    [id |-> 4, business_id |-> Biz, model |-> ModelA8, trim |-> TrimBase, is_active |-> FALSE],
    [id |-> 5, business_id |-> OtherBiz, model |-> ModelR8, trim |-> TrimBase, is_active |-> TRUE] }

\* ---------------------------------------------------------------- calendar

\* Two half-open windows overlap.
Overlaps(s1, e1, s2, e2) == s1 < e2 /\ s2 < e1

\* The answer of calendar.freebusy.query for one calendar id: the busy
\* intervals of that calendar that meet [timeMin, timeMax].
Busy(calendars, calId, timeMin, timeMax) ==
  { ev \in calendars[calId] : Overlaps(ev.start, ev.end, timeMin, timeMax) }

\* calendar.events.insert: the calendar with a new event, whose id is evId.
EventsInsert(calendars, calId, evId, start, end) ==
  [calendars EXCEPT ![calId] = @ \cup {[id |-> evId, start |-> start, end |-> end]}]

\* calendar.events.delete
EventsDelete(calendars, calId, evId) ==
  [calendars EXCEPT ![calId] = { ev \in @ : ev.id # evId }]

\* ------------------------------------------------------------------- store

\* The exclusion constraint of "appointments": no two rows of one car unit
\* with overlapping [starts_at, ends_at).  A violation is error 23P01.
ExclusionViolated(rows, row) ==
  /\ row.car_unit_id # Null
  /\ \E other \in rows :
       /\ other.id # row.id
       /\ other.car_unit_id = row.car_unit_id
       /\ Overlaps(other.starts_at, other.ends_at, row.starts_at, row.ends_at)

\* The row an upsert on idem_key writes: the existing row of that key with
\* the payload's columns, or a new row with id newId.
UpsertRow(rows, payload, newId) ==
  LET hit == { r \in rows : r.idem_key = payload.idem_key }
  IN  IF hit = {}
        THEN [payload EXCEPT !.id = newId]
        ELSE [payload EXCEPT !.id = (CHOOSE r \in hit : TRUE).id]

\* The table after the upsert (when the constraint admits the row).
UpsertRows(rows, payload, newId) ==
  LET row == UpsertRow(rows, payload, newId)
  IN  { r \in rows : r.id # row.id } \cup {row}

\* supabase.rpc("pick_free_car"): the first active unit (by id) of the
\* business whose model matches case-insensitively, of the requested trim
\* when an exact trim is required, with no appointment overlapping
\* [start, end); Null when there is none.
CarCandidates(businessId, model, trim, requireExact) ==
  { c \in Cars :
      /\ c.business_id = businessId
      /\ c.is_active
      /\ ToLowerCase(c.model) = ToLowerCase(model)
      /\ (requireExact /\ trim # NoText) => ToLowerCase(c.trim) = ToLowerCase(trim) }

CarFree(rows, carId, start, end) ==
  ~ \E r \in rows :
      r.car_unit_id = carId /\ Overlaps(r.starts_at, r.ends_at, start, end)

PickFreeCar(rows, businessId, model, start, end, trim, requireExact) ==
  LET free == { c.id : c \in { c \in CarCandidates(businessId, model, trim, requireExact) :
                                 CarFree(rows, c.id, start, end) } }
  IN  IF free = {} THEN Null
      ELSE CHOOSE id \in free : \A other \in free : id <= other

\* ---------------------------------------------------------------- requests

\* A bookingTime that DateTime.fromISO cannot parse.
InvalidTime == -2

NoData ==
  [ name |-> NoText, email |-> NoText, phone |-> NoText,
    bookingTime |-> Absent, calendarId |-> NoCal, blockingCalendarId |-> NoCal,
    model |-> NoText, trim |-> NoText, requireExactTrim |-> FALSE,
    car_id |-> Null,
    business_id |-> "", timezone |-> "",
    officeStart |-> Absent, officeEnd |-> Absent,
    maxOverlaps |-> Absent, durationMin |-> Absent ]

NoLoc ==
  [ start |-> 0, end |-> 0, blockBusy |-> 0, mainBusy |-> 0,
    carId |-> Null, apptId |-> Null, gcalId |-> Null,
    probed |-> FALSE, clock |-> 0, k |-> 0, dir |-> 0, resendOf |-> Null ]

NoResp == [code |-> 0, status |-> "", reason |-> ""]

Resp(code, status, reason) == [code |-> code, status |-> status, reason |-> reason]

IdleProc ==
  [pc |-> "idle", kind |-> "", variant |-> "", data |-> NoData, loc |-> NoLoc, resp |-> NoResp]

\* 17.5, a closing time that is not a whole hour
HalfPastFive == 17 * MinutesPerHour + 30

\* `a || b` on texts and `a ?? b` on numbers
OrText(a, b) == IF a # "" THEN a ELSE b

Coalesce(a, b) == IF a # Absent THEN a ELSE b

\* The handler answers and ends.
Answer(p, loc, resp) ==
  proc' = [proc EXCEPT ![p].pc = "done", ![p].loc = loc, ![p].resp = resp]

Goto(p, pc, loc) ==
  proc' = [proc EXCEPT ![p].pc = pc, ![p].loc = loc]

\* A dependency call fails / answers.
Fails == faults < MaxFaults /\ faults' = faults + 1

Works == faults' = faults

\* ------------------------------------------------------------- /testdrive

\* Whether the business has an active unit of the model (the inventory
\* check of part_001: models.some(m => m.toLowerCase() === model.toLowerCase())).
ModelExists(businessId, model) ==
  \E c \in Cars :
    c.business_id = businessId /\ c.is_active /\ ToLowerCase(c.model) = ToLowerCase(model)

\* maxOverlaps of /testdrive.  part_001: data.maxOverlaps ?? 3.
\* index.js: parseInt(data.maxOverlaps ?? 3, 10) || 3.
TdCapacity(variant, d) ==
  LET m == Coalesce(d.maxOverlaps, TdMaxOverlaps)
  IN  IF variant = "index" /\ m = 0 THEN TdMaxOverlaps ELSE m

\* ProbeVerdict with the two checks in the other order (not the code: a
\* variant the properties must tell from it).
ProbeVerdictFullFirst(busyBlock, busyMain, capacity) ==
  IF Cardinality(busyMain) >= capacity THEN "slot_full"
  ELSE IF busyBlock # {} THEN "slot_blocked"
  ELSE "open"

\* What the handler makes of the freebusy answer: a busy blocking
\* calendar first, then the count of the calendar against maxOverlaps.
ProbeVerdict(busyBlock, busyMain, capacity) ==
  IF busyBlock # {} THEN "slot_blocked"
  ELSE IF Cardinality(busyMain) >= capacity THEN "slot_full"
  ELSE "open"

\* The first stage with the office hours looked at before the lead time
\* (not the code: a variant the properties must tell from it).
TdFirstStageHoursFirst(variant, d, clock, calendars, fbOk, invOk) ==
  LET tz          == OrText(d.timezone, "America/Chicago")
      officeStart == Coalesce(d.officeStart, TdOfficeStart)
      officeEnd   == Coalesce(d.officeEnd, TdOfficeEnd)
      start       == FromLocal(d.bookingTime, tz)
      end         == start + TestDriveDurationMin
      blockingId  == OrText(d.blockingCalendarId, d.calendarId)
      busyBlock   == IF fbOk THEN Busy(calendars, blockingId, start, end) ELSE {}
      busyMain    == IF fbOk THEN Busy(calendars, d.calendarId, start, end) ELSE {}
      timed       == [NoLoc EXCEPT !.start = start, !.end = end, !.clock = clock]
      probedLoc   == [timed EXCEPT !.probed = TRUE,
                                   !.blockBusy = Cardinality(busyBlock),
                                   !.mainBusy = Cardinality(busyMain)]
      verdict     == ProbeVerdict(busyBlock, busyMain, TdCapacity(variant, d))
      fbFailed    == IF fbOk THEN {} ELSE {"freebusy"}
      stop(loc, resp) == [pc |-> "done", loc |-> loc, resp |-> resp, failed |-> {}]
      stopF(loc, resp, failed) == [pc |-> "done", loc |-> loc, resp |-> resp, failed |-> failed]
      go(pc, loc) == [pc |-> pc, loc |-> loc, resp |-> NoResp, failed |-> fbFailed]
  IN  IF d.name = NoText \/ d.bookingTime = Absent \/ d.calendarId = NoCal \/ d.business_id = ""
        THEN stop(NoLoc, Resp(400, "error", "missing_fields"))
      ELSE IF d.bookingTime = InvalidTime
        THEN stop(NoLoc, Resp(400, "error", "invalid_booking_time"))
      ELSE IF OutsideHoursFractional(start, end, tz, officeStart, officeEnd)
        THEN stop(timed, Resp(409, "rejected", "outside_office_hours"))
      ELSE IF start - clock < MinLeadMin
        THEN stop(timed, Resp(409, "rejected", "too_soon"))
      ELSE IF ~fbOk /\ variant = "index"
        THEN stopF(probedLoc, Resp(500, "error", "server_error"), fbFailed)
      ELSE IF verdict # "open"
        THEN stop(probedLoc, Resp(409, "rejected", verdict))
      ELSE IF d.model = NoText
        THEN go("td_upsert", probedLoc)
      ELSE IF variant = "index"
        THEN go("td_pick", probedLoc)
      ELSE IF ~invOk
        THEN stopF(probedLoc, Resp(500, "error", "inventory_check_failed"),
                   fbFailed \cup {"inventory"})
      ELSE IF ~ModelExists(d.business_id, d.model)
        THEN stopF(probedLoc, Resp(409, "rejected", "unknown_model"), fbFailed)
      ELSE go("td_pick", probedLoc)

\* The handler up to and including the inventory check: everything before
\* pick_free_car.  fbOk: the freebusy query answers; invOk: the inventory
\* query answers.  Yields the next position, the locals and the response.
TdFirstStage(variant, d, clock, calendars, fbOk, invOk) ==
  LET tz          == OrText(d.timezone, "America/Chicago")
      officeStart == Coalesce(d.officeStart, TdOfficeStart)
      officeEnd   == Coalesce(d.officeEnd, TdOfficeEnd)
      start       == FromLocal(d.bookingTime, tz)
      end         == start + TestDriveDurationMin
      blockingId  == OrText(d.blockingCalendarId, d.calendarId)
      busyBlock   == IF fbOk THEN Busy(calendars, blockingId, start, end) ELSE {}
      busyMain    == IF fbOk THEN Busy(calendars, d.calendarId, start, end) ELSE {}
      timed       == [NoLoc EXCEPT !.start = start, !.end = end, !.clock = clock]
      probedLoc   == [timed EXCEPT !.probed = TRUE,
                                   !.blockBusy = Cardinality(busyBlock),
                                   !.mainBusy = Cardinality(busyMain)]
      verdict     == ProbeVerdict(busyBlock, busyMain, TdCapacity(variant, d))
      fbFailed    == IF fbOk THEN {} ELSE {"freebusy"}
      stop(loc, resp) == [pc |-> "done", loc |-> loc, resp |-> resp, failed |-> {}]
      stopF(loc, resp, failed) == [pc |-> "done", loc |-> loc, resp |-> resp, failed |-> failed]
      go(pc, loc) == [pc |-> pc, loc |-> loc, resp |-> NoResp, failed |-> fbFailed]
  IN  IF d.name = NoText \/ d.bookingTime = Absent \/ d.calendarId = NoCal \/ d.business_id = ""
        THEN stop(NoLoc, Resp(400, "error", "missing_fields"))
      ELSE IF d.bookingTime = InvalidTime
        THEN stop(NoLoc, Resp(400, "error", "invalid_booking_time"))
      ELSE IF start - clock < MinLeadMin
        THEN stop(timed, Resp(409, "rejected", "too_soon"))
      ELSE IF OutsideHoursFractional(start, end, tz, officeStart, officeEnd)
        THEN stop(timed, Resp(409, "rejected", "outside_office_hours"))
      ELSE IF ~fbOk /\ variant = "index"
        THEN stopF(probedLoc, Resp(500, "error", "server_error"), fbFailed)
      ELSE IF verdict # "open"
        THEN stop(probedLoc, Resp(409, "rejected", verdict))
      ELSE IF d.model = NoText
        THEN go("td_upsert", probedLoc)
      ELSE IF variant = "index"
        THEN go("td_pick", probedLoc)
      ELSE IF ~invOk
        THEN stopF(probedLoc, Resp(500, "error", "inventory_check_failed"),
                   fbFailed \cup {"inventory"})
      ELSE IF ~ModelExists(d.business_id, d.model)
        THEN stopF(probedLoc, Resp(409, "rejected", "unknown_model"), fbFailed)
      ELSE go("td_pick", probedLoc)

\* A key with the name as typed (not the code: a variant the properties
\* must tell from it).
IdemKeyRaw(businessId, start, name) == <<businessId, "testdrive", start, name>>

\* The idempotency key: [businessId, "testdrive", start.toISOString(),
\* (name || "").trim().toLowerCase()].join("|")
IdemKey(businessId, start, name) ==
  <<businessId, "testdrive", start, ToLowerCase(Trim(name))>>

\* insertPayload (the columns the decisions and the properties read).
TdPayload(d, loc) ==
  [ id            |-> Null,
    idem_key      |-> IdemKey(d.business_id, loc.start, d.name),
    business_id   |-> d.business_id,
    name          |-> d.name,
    email         |-> ToLowerCase(Trim(d.email)),
    phone         |-> d.phone,
    car_unit_id   |-> loc.carId,
    starts_at     |-> loc.start,
    ends_at       |-> loc.end,
    status        |-> "booked",
    gcal_event_id |-> Null ]

\* The requests that have ended with success and that d repeats: the
\* same business, start and name up to trimming and letter case.
Succeeded(d) ==
  { q \in Procs : /\ proc[q].kind = "testdrive"
                  /\ proc[q].pc = "done"
                  /\ proc[q].resp.status = "success"
                  /\ proc[q].data.business_id = d.business_id
                  /\ proc[q].data.bookingTime = d.bookingTime
                  /\ proc[q].data.model = d.model
                  /\ ToLowerCase(Trim(proc[q].data.name)) = ToLowerCase(Trim(d.name)) }

\* A request arrives: validation, time handling, lead time, office hours,
\* the freebusy query and (part_001) the inventory check.  resendOf notes,
\* for the properties, which earlier request this one repeats.
TD_Receive(p, variant, d) ==
  /\ proc[p].pc = "idle"
  /\ \E fbOk \in BOOLEAN, invOk \in BOOLEAN :
       LET out == TdFirstStage(variant, d, now, cal, fbOk, invOk)
           first == IF Succeeded(d) = {} THEN Null
                    ELSE CHOOSE q \in Succeeded(d) : \A r \in Succeeded(d) : q <= r
       IN  /\ proc' = [proc EXCEPT ![p] =
                         [pc |-> out.pc, kind |-> "testdrive", variant |-> variant,
                          data |-> d, loc |-> [out.loc EXCEPT !.resendOf = first],
                          resp |-> out.resp]]
           /\ ~fbOk => "freebusy" \in out.failed
           /\ ~invOk => "inventory" \in out.failed
           /\ faults' = faults + Cardinality(out.failed)
           /\ faults' <= MaxFaults
  /\ UNCHANGED <<now, ticks, cal, appts, stats>>

\* supabase.rpc("pick_free_car", ...)
TD_PickCar(p) ==
  /\ proc[p].pc = "td_pick"
  /\ LET d   == proc[p].data
         loc == proc[p].loc
         exact == proc[p].variant # "index" /\ d.requireExactTrim
         trim  == IF proc[p].variant = "index" THEN NoText ELSE d.trim
         car == PickFreeCar(appts, d.business_id, d.model, loc.start, loc.end, trim, exact)
     IN  \/ /\ Fails
            /\ Answer(p, loc, Resp(500, "error", "car_allocation_failed"))
         \/ /\ Works
            /\ car = Null
            /\ IF exact /\ trim # NoText
                 THEN Answer(p, loc, Resp(409, "rejected", "exact_trim_unavailable"))
                 ELSE Answer(p, loc, Resp(409, "rejected", "no_unit_available"))
         \/ /\ Works
            /\ car # Null
            /\ Goto(p, "td_upsert", [loc EXCEPT !.carId = car])
  /\ UNCHANGED <<now, ticks, cal, appts, stats>>

\* An upsert whose row stays in the table when the exclusion constraint
\* refuses it (not the code: a variant the properties must tell from it).
TD_UpsertKeepsRow(p) ==
  /\ proc[p].pc = "td_upsert"
  /\ LET loc     == proc[p].loc
         payload == TdPayload(proc[p].data, loc)
         newId   == FreshId(p)
         row     == UpsertRow(appts, payload, newId)
     IN  \/ /\ Fails
            /\ Answer(p, loc, Resp(500, "error", "db_upsert_failed"))
            /\ UNCHANGED appts
         \/ /\ Works
            /\ ExclusionViolated(appts, row)
            /\ Answer(p, loc, Resp(409, "rejected", "overlap"))
            /\ appts' = UpsertRows(appts, payload, newId)
         \/ /\ Works
            /\ ~ExclusionViolated(appts, row)
            /\ appts' = UpsertRows(appts, payload, newId)
            /\ Goto(p, "td_gcal", [loc EXCEPT !.apptId = row.id])
  /\ UNCHANGED <<now, ticks, cal, stats>>

\* supabase.from("appointments").upsert([insertPayload], { onConflict: "idem_key" })
TD_Upsert(p) ==
  /\ proc[p].pc = "td_upsert"
  /\ LET loc     == proc[p].loc
         payload == TdPayload(proc[p].data, loc)
         newId   == FreshId(p)
         row     == UpsertRow(appts, payload, newId)
     IN  \/ /\ Fails
            /\ Answer(p, loc, Resp(500, "error", "db_upsert_failed"))
            /\ UNCHANGED appts
         \/ /\ Works
            /\ ExclusionViolated(appts, row)
            /\ Answer(p, loc, Resp(409, "rejected", "overlap"))
            /\ UNCHANGED appts
         \/ /\ Works
            /\ ~ExclusionViolated(appts, row)
            /\ appts' = UpsertRows(appts, payload, newId)
            /\ Goto(p, "td_gcal", [loc EXCEPT !.apptId = row.id])
  /\ UNCHANGED <<now, ticks, cal, stats>>

\* calendar.events.insert({ calendarId, requestBody: event })
TD_CalInsert(p) ==
  /\ proc[p].pc = "td_gcal"
  /\ LET loc  == proc[p].loc
         evId == FreshId(p)
     IN  \/ /\ Works
            /\ cal' = EventsInsert(cal, proc[p].data.calendarId, evId, loc.start, loc.end)
            /\ Goto(p, "td_attach", [loc EXCEPT !.gcalId = evId])
         \/ /\ Fails
            /\ Goto(p, "td_rollback", loc)
            /\ UNCHANGED cal
  /\ UNCHANGED <<now, ticks, appts, stats>>

\* catch (calErr): supabase.from("appointments").delete().eq("id", apptId),
\* whose result is not looked at; then 502 calendar_insert_failed.
TD_Rollback(p) ==
  /\ proc[p].pc = "td_rollback"
  /\ LET loc == proc[p].loc
     IN  \/ /\ Works
            /\ appts' = { r \in appts : r.id # loc.apptId }
            /\ Answer(p, loc, Resp(502, "error", "calendar_insert_failed"))
         \/ /\ Fails
            /\ appts' = appts
            /\ Answer(p, loc, Resp(502, "error", "calendar_insert_failed"))
  /\ UNCHANGED <<now, ticks, cal, stats>>

\* if (gcalId) supabase.from("appointments").update({ gcal_event_id }).eq("id", apptId),
\* whose result is not looked at; then 201 success.
TD_Attach(p) ==
  /\ proc[p].pc = "td_attach"
  /\ LET loc == proc[p].loc
     IN  \/ /\ Works
            /\ appts' = { IF r.id = loc.apptId THEN [r EXCEPT !.gcal_event_id = loc.gcalId] ELSE r :
                          r \in appts }
            /\ Answer(p, loc, Resp(201, "success", "booked"))
         \/ /\ Fails
            /\ appts' = appts
            /\ Answer(p, loc, Resp(201, "success", "booked"))
  /\ UNCHANGED <<now, ticks, cal, stats>>

\* ------------------------------------------------------------ /action book

\* The zone of the host process (Date#getHours, DateTime.now().toISO()).
ServerZone == "UTC"

\* process.env.CALENDAR_ID and process.env.BLOCKING_CALENDAR_ID (index.js, first book)
EnvCalendarId == MainCal

EnvBlockingCalendarId == HoldCal

\* new Date(null): the instant book of part_002 takes for the start and
\* the end of a bookingTime it cannot read (toISO() of an invalid DateTime
\* is null).  It lies before every instant of a run.
Epoch == 0

\* A row of "stats".  appointment_id is the calendar event's id.
StatsRow(id, d, callType, eventId, start, end, reason, clock) ==
  [ id |-> id, business_id |-> d.business_id, call_type |-> callType,
    appointment_id |-> eventId, name |-> d.name, email |-> d.email, phone |-> d.phone,
    start |-> start, end |-> end, reason |-> reason, created_at |-> clock ]

\* parseInt(data.durationMin) || DEFAULTS.durationMin, and the default
\* again when the result is not positive.
BookDuration(d) ==
  IF d.durationMin = Absent \/ d.durationMin <= 0 THEN BookDurationMin ELSE d.durationMin

\* data.maxOverlaps || DEFAULTS.maxOverlaps
BookCapacity(d) ==
  IF d.maxOverlaps = Absent \/ d.maxOverlaps = 0 THEN BookMaxOverlaps ELSE d.maxOverlaps

\* What book of part_002 makes of the freebusy answer: the slot_full
\* answer sits inside `if (busyBlock.length > 0)`, after the return for a
\* busy blocking calendar.
BookProbeVerdict(busyBlock, busyMain, capacity) ==
  IF busyBlock # {} THEN "slot_blocked"
  ELSE IF Cardinality(busyMain) >= capacity /\ busyBlock # {} THEN "slot_full"
  ELSE "open"

\* A book that asks freebusy before it looks at the lead time and the
\* hours (not the code: a variant the properties must tell from it).
BookFirstStageProbeFirst(d, clock, calendars, fbOk) ==
  LET tz        == OrText(d.timezone, "America/Vancouver")
      start     == FromLocal(d.bookingTime, tz)
      end       == start + BookDuration(d)
      blockingId == OrText(d.blockingCalendarId, d.calendarId)
      busyBlock == Busy(calendars, blockingId, start, end)
      busyMain  == Busy(calendars, d.calendarId, start, end)
      probedLoc == [NoLoc EXCEPT !.start = start, !.end = end, !.clock = clock,
                                 !.probed = TRUE,
                                 !.blockBusy = Cardinality(busyBlock),
                                 !.mainBusy = Cardinality(busyMain)]
      verdict   == BookProbeVerdict(busyBlock, busyMain, BookCapacity(d))
      out(pc, loc, resp, failed, log) ==
        [pc |-> pc, loc |-> loc, resp |-> resp, failed |-> failed, log |-> log]
  IN  IF d.name = NoText \/ d.bookingTime = Absent \/ d.calendarId = NoCal
        THEN out("done", NoLoc, Resp(200, "error", "missing_fields"), {}, "")
      ELSE IF ~fbOk
        THEN out("crashed", probedLoc, NoResp, {"freebusy"}, "")
      ELSE IF start - clock < MinLeadMin
        THEN out("done", probedLoc, Resp(200, "rejected", "too_soon"), {}, "too_soon")
      ELSE IF OutsideHoursWholeHour(start, end, tz, Coalesce(d.officeStart, BookOfficeStart),
                                    Coalesce(d.officeEnd, BookOfficeEnd))
        THEN out("done", probedLoc, Resp(200, "rejected", "outside_office_hours"), {},
                 "outside_office_hours")
      ELSE IF verdict # "open"
        THEN out("done", probedLoc, Resp(200, "rejected", verdict), {}, verdict)
      ELSE out("bk_gcal", probedLoc, NoResp, {}, "")

\* book of part_002 (the same text in part_001 and in index.js from line
\* 1029) up to the freebusy answer.  log: the reason of the "rejected" row
\* written to stats before the answer.  A bookingTime that cannot be read
\* gives an invalid DateTime: diffMinutes and the hours are NaN, every
\* comparison with them is false, and start and end are new Date(null).
BookFirstStage(d, clock, calendars, fbOk) ==
  LET tz          == OrText(d.timezone, "America/Vancouver")
      officeStart == Coalesce(d.officeStart, BookOfficeStart)
      officeEnd   == Coalesce(d.officeEnd, BookOfficeEnd)
      unread      == d.bookingTime = InvalidTime
      start       == IF unread THEN Epoch ELSE FromLocal(d.bookingTime, tz)
      end         == IF unread THEN Epoch ELSE start + BookDuration(d)
      blockingId  == OrText(d.blockingCalendarId, d.calendarId)
      busyBlock   == Busy(calendars, blockingId, start, end)
      busyMain    == Busy(calendars, d.calendarId, start, end)
      timed       == [NoLoc EXCEPT !.start = start, !.end = end, !.clock = clock]
      probedLoc   == [timed EXCEPT !.probed = TRUE,
                                   !.blockBusy = Cardinality(busyBlock),
                                   !.mainBusy = Cardinality(busyMain)]
      verdict     == BookProbeVerdict(busyBlock, busyMain, BookCapacity(d))
      out(pc, loc, resp, failed, log) ==
        [pc |-> pc, loc |-> loc, resp |-> resp, failed |-> failed, log |-> log]
  IN  IF d.name = NoText \/ d.bookingTime = Absent \/ d.calendarId = NoCal
        THEN out("done", NoLoc, Resp(200, "error", "missing_fields"), {}, "")
      ELSE IF ~unread /\ start - clock < MinLeadMin
        THEN out("done", timed, Resp(200, "rejected", "too_soon"), {}, "too_soon")
      ELSE IF ~unread /\ OutsideHoursWholeHour(start, end, tz, officeStart, officeEnd)
        THEN out("done", timed, Resp(200, "rejected", "outside_office_hours"), {},
                 "outside_office_hours")
      ELSE IF ~fbOk
        THEN out("crashed", timed, NoResp, {"freebusy"}, "")
      ELSE IF verdict # "open"
        THEN out("done", probedLoc, Resp(200, "rejected", verdict), {}, verdict)
      ELSE out("bk_gcal", probedLoc, NoResp, {}, "")

\* The first book of index.js (lines 66-133) up to the freebusy answer:
\* fixed calendars, hours and duration, times read in the host's zone.
\* A bookingTime that cannot be read gives an invalid Date: the hours are
\* NaN, and start.toISOString() throws before the query is sent.
BookV1FirstStage(d, clock, calendars, fbOk) ==
  LET start     == FromLocal(d.bookingTime, ServerZone)
      end       == start + V1DurationMin
      busyBlock == Busy(calendars, EnvBlockingCalendarId, start, end)
      busyMain  == Busy(calendars, EnvCalendarId, start, end)
      timed     == [NoLoc EXCEPT !.start = start, !.end = end, !.clock = clock]
      probedLoc == [timed EXCEPT !.probed = TRUE,
                                 !.blockBusy = Cardinality(busyBlock),
                                 !.mainBusy = Cardinality(busyMain)]
      verdict   == ProbeVerdict(busyBlock, busyMain, V1MaxOverlaps)
      out(pc, loc, resp, failed) ==
        [pc |-> pc, loc |-> loc, resp |-> resp, failed |-> failed, log |-> ""]
  IN  IF d.name = NoText \/ d.bookingTime = Absent
        THEN out("done", NoLoc, Resp(200, "error", "missing_fields"), {})
      ELSE IF d.bookingTime = InvalidTime
        THEN out("crashed", NoLoc, NoResp, {})
      ELSE IF OutsideHoursWholeHour(start, end, ServerZone, V1OfficeStart, V1OfficeEnd)
        THEN out("done", timed, Resp(200, "rejected", "outside_office_hours"), {})
      ELSE IF ~fbOk
        THEN out("crashed", timed, NoResp, {"freebusy"})
      ELSE IF verdict # "open"
        THEN out("done", probedLoc, Resp(200, "rejected", verdict), {})
      ELSE out("bk_gcal", probedLoc, NoResp, {})

\* The second book of index.js (lines 381-493) up to the freebusy answer.
\* It has no lead-time check.  businessId is not declared in it, so building
\* the 'rejected' row of an outside_office_hours or slot_blocked rejection
\* throws a ReferenceError before anything is answered.  The braces of
\* `if (busyMain.length >= maxOverlaps) {` close at the end of the
\* function: the event is built and inserted inside that block only, and
\* with a count below maxOverlaps the function ends without an answer.
BookV2FirstStage(d, clock, calendars, fbOk) ==
  LET tz          == OrText(d.timezone, "America/Vancouver")
      officeStart == Coalesce(d.officeStart, BookOfficeStart)
      officeEnd   == Coalesce(d.officeEnd, BookOfficeEnd)
      duration    == IF d.durationMin = Absent \/ d.durationMin = 0
                       THEN V2DurationMin ELSE d.durationMin
      unread      == d.bookingTime = InvalidTime
      start       == IF unread THEN Epoch ELSE FromLocal(d.bookingTime, tz)
      end         == IF unread THEN Epoch ELSE start + duration
      blockingId  == OrText(d.blockingCalendarId, d.calendarId)
      busyBlock   == Busy(calendars, blockingId, start, end)
      busyMain    == Busy(calendars, d.calendarId, start, end)
      timed       == [NoLoc EXCEPT !.start = start, !.end = end, !.clock = clock]
      probedLoc   == [timed EXCEPT !.probed = TRUE,
                                   !.blockBusy = Cardinality(busyBlock),
                                   !.mainBusy = Cardinality(busyMain)]
      out(pc, loc, resp, failed) ==
        [pc |-> pc, loc |-> loc, resp |-> resp, failed |-> failed, log |-> ""]
  IN  IF d.name = NoText \/ d.bookingTime = Absent \/ d.calendarId = NoCal
        THEN out("done", NoLoc, Resp(200, "error", "missing_fields"), {})
      ELSE IF ~unread /\ OutsideHoursWholeHour(start, end, tz, officeStart, officeEnd)
        THEN out("crashed", timed, NoResp, {})
      ELSE IF ~fbOk
        THEN out("crashed", timed, NoResp, {"freebusy"})
      ELSE IF busyBlock # {}
        THEN out("crashed", probedLoc, NoResp, {})
      ELSE IF Cardinality(busyMain) >= BookCapacity(d)
        THEN out("bk_gcal", probedLoc, NoResp, {})
      ELSE out("unanswered", probedLoc, NoResp, {})

\* A book request arrives: validation, lead time (part_002), office hours
\* and the freebusy query.  A rejection of part_002 is logged to stats
\* before the answer.  A freebusy failure is a rejected promise that
\* nothing catches: the request gets no answer.
BK_Receive(p, variant, d) ==
  /\ proc[p].pc = "idle"
  /\ \E fbOk \in BOOLEAN :
       LET out == IF variant = "index_v1"
                    THEN BookV1FirstStage(d, now, cal, fbOk)
                  ELSE IF variant = "index_v2"
                    THEN BookV2FirstStage(d, now, cal, fbOk)
                    ELSE BookFirstStage(d, now, cal, fbOk)
       IN  /\ proc' = [proc EXCEPT ![p] =
                         [pc |-> out.pc, kind |-> "book", variant |-> variant,
                          data |-> d, loc |-> out.loc, resp |-> out.resp]]
           /\ ~fbOk => "freebusy" \in out.failed
           /\ faults' = faults + Cardinality(out.failed)
           /\ faults' <= MaxFaults
           /\ stats' = IF out.log = "" THEN stats
                       ELSE stats \cup {StatsRow(FreshId(p), d, "rejected", Null,
                                                 Absent, Absent, out.log, now)}
  /\ UNCHANGED <<now, ticks, cal, appts>>

\* calendar.events.insert({ calendarId, resource: event }); index.js's
\* first book answers right after it.
BK_CalInsert(p) ==
  /\ proc[p].pc = "bk_gcal"
  /\ LET loc   == proc[p].loc
         v1    == proc[p].variant = "index_v1"
         calId == IF v1 THEN EnvCalendarId ELSE proc[p].data.calendarId
         evId  == FreshId(p)
         booked == [loc EXCEPT !.gcalId = evId]
     IN  \/ /\ Works
            /\ cal' = EventsInsert(cal, calId, evId, loc.start, loc.end)
            /\ IF v1 THEN Answer(p, booked, Resp(200, "success", "booked"))
                     ELSE Goto(p, "bk_stats", booked)
         \/ /\ Fails
            /\ proc' = [proc EXCEPT ![p].pc = "crashed"]
            /\ UNCHANGED cal
  /\ UNCHANGED <<now, ticks, appts, stats>>

\* supabase.from('stats').insert([{ call_type: 'booking', ... }]), whose
\* result is not looked at; then the success answer.  In the second book
\* of index.js the row names businessId, which is not declared: the
\* ReferenceError ends the request with the event inserted and no answer.
BK_Stats(p) ==
  /\ proc[p].pc = "bk_stats"
  /\ LET loc == proc[p].loc
     IN  IF proc[p].variant = "index_v2"
           THEN /\ Works
                /\ stats' = stats
                /\ proc' = [proc EXCEPT ![p].pc = "crashed"]
           ELSE /\ \/ /\ Works
                      /\ stats' = stats \cup {StatsRow(FreshId(p), proc[p].data, "booking",
                                                       loc.gcalId, loc.start, loc.end, "", now)}
                   \/ /\ Fails
                      /\ stats' = stats
                /\ Answer(p, loc, Resp(200, "success", "booked"))
  /\ UNCHANGED <<now, ticks, cal, appts>>

\* ------------------------------------------- /testdrive, calendar first

\* /testdrive of part_002 (line 182), which writes the calendar event
\* before the appointment.  Its DEFAULTS are those of book (part_002:17-23):
\* DEFAULTS.testDriveDurationMin is not set, so the length of a test drive
\* is DEFAULTS.durationMin.
TdCalFirstDurationMin == BookDurationMin

\* parseInt(data.maxOverlaps ?? DEFAULTS.maxOverlaps, 10) || DEFAULTS.maxOverlaps || 1
TdCalFirstCapacity(d) ==
  IF d.maxOverlaps = Absent \/ d.maxOverlaps = 0 THEN BookMaxOverlaps ELSE d.maxOverlaps

\* The handler up to the freebusy answer.  A bookingTime that cannot be
\* read gives an invalid DateTime: the comparisons with NaN are false and
\* start and end are new Date(null).  A freebusy query that fails throws
\* into the handler's catch.
TdCalFirstStage(d, clock, calendars, fbOk) ==
  LET tz          == OrText(d.timezone, "America/Vancouver")
      officeStart == Coalesce(d.officeStart, BookOfficeStart)
      officeEnd   == Coalesce(d.officeEnd, BookOfficeEnd)
      unread      == d.bookingTime = InvalidTime
      start       == IF unread THEN Epoch ELSE FromLocal(d.bookingTime, tz)
      end         == IF unread THEN Epoch ELSE start + TdCalFirstDurationMin
      blockingId  == OrText(d.blockingCalendarId, d.calendarId)
      busyBlock   == Busy(calendars, blockingId, start, end)
      busyMain    == Busy(calendars, d.calendarId, start, end)
      timed       == [NoLoc EXCEPT !.start = start, !.end = end, !.clock = clock,
                                   !.carId = d.car_id]
      probedLoc   == [timed EXCEPT !.probed = TRUE,
                                   !.blockBusy = Cardinality(busyBlock),
                                   !.mainBusy = Cardinality(busyMain)]
      verdict     == ProbeVerdict(busyBlock, busyMain, TdCalFirstCapacity(d))
      out(pc, loc, resp, failed) == [pc |-> pc, loc |-> loc, resp |-> resp, failed |-> failed]
  IN  IF d.name = NoText \/ d.bookingTime = Absent \/ d.calendarId = NoCal \/ d.business_id = ""
        THEN out("done", NoLoc, Resp(200, "error", "missing_fields"), {})
      ELSE IF ~unread /\ start - clock < MinLeadMin
        THEN out("done", timed, Resp(200, "rejected", "too_soon"), {})
      ELSE IF ~unread /\ OutsideHoursFractional(start, end, tz, officeStart, officeEnd)
        THEN out("done", timed, Resp(200, "rejected", "outside_office_hours"), {})
      ELSE IF ~fbOk
        THEN out("done", timed, Resp(200, "error", "server_error"), {"freebusy"})
      ELSE IF verdict # "open"
        THEN out("done", probedLoc, Resp(200, "rejected", verdict), {})
      ELSE out("tdc_gcal", probedLoc, NoResp, {})

\* The appointment row of part_002 (the columns the properties read): no
\* idem_key and no status are written, car_unit_id is the request's car_id.
TdCalFirstRow(id, d, loc) ==
  [ id            |-> id,
    idem_key      |-> <<>>,
    business_id   |-> d.business_id,
    name          |-> d.name,
    email         |-> d.email,
    phone         |-> d.phone,
    car_unit_id   |-> d.car_id,
    starts_at     |-> loc.start,
    ends_at       |-> loc.end,
    status        |-> "",
    gcal_event_id |-> loc.gcalId ]

\* A request arrives: validation, lead time, office hours, freebusy.
TDC_Receive(p, d) ==
  /\ proc[p].pc = "idle"
  /\ \E fbOk \in BOOLEAN :
       LET out == TdCalFirstStage(d, now, cal, fbOk)
       IN  /\ proc' = [proc EXCEPT ![p] =
                         [pc |-> out.pc, kind |-> "testdrive", variant |-> "part_002",
                          data |-> d, loc |-> out.loc, resp |-> out.resp]]
           /\ ~fbOk => "freebusy" \in out.failed
           /\ faults' = faults + Cardinality(out.failed)
           /\ faults' <= MaxFaults
  /\ UNCHANGED <<now, ticks, cal, appts, stats>>

\* calendar.events.insert({ calendarId, resource: event }); a failure
\* throws into the handler's catch.
TDC_CalInsert(p) ==
  /\ proc[p].pc = "tdc_gcal"
  /\ LET loc  == proc[p].loc
         evId == FreshId(p)
     IN  \/ /\ Works
            /\ cal' = EventsInsert(cal, proc[p].data.calendarId, evId, loc.start, loc.end)
            /\ Goto(p, "tdc_insert", [loc EXCEPT !.gcalId = evId])
         \/ /\ Fails
            /\ cal' = cal
            /\ Answer(p, loc, Resp(200, "error", "server_error"))
  /\ UNCHANGED <<now, ticks, appts, stats>>

\* supabase.from("appointments").insert([appt]): an error (of the store,
\* or of the exclusion constraint) is answered 'DB insert failed', the
\* event stays where it is.
TDC_ApptInsert(p) ==
  /\ proc[p].pc = "tdc_insert"
  /\ LET loc == proc[p].loc
         row == TdCalFirstRow(FreshId(p), proc[p].data, loc)
     IN  \/ /\ Fails
            /\ appts' = appts
            /\ Answer(p, loc, Resp(200, "error", "db_insert_failed"))
         \/ /\ Works
            /\ ExclusionViolated(appts, row)
            /\ appts' = appts
            /\ Answer(p, loc, Resp(200, "error", "db_insert_failed"))
         \/ /\ Works
            /\ ~ExclusionViolated(appts, row)
            /\ appts' = appts \cup {row}
            /\ Answer(p, [loc EXCEPT !.apptId = row.id], Resp(200, "success", "booked"))
  /\ UNCHANGED <<now, ticks, cal, stats>>

\* ---------------------------------------------------------- /action cancel

\* .gte('metadata->>start', nowISO): a comparison of texts.  start is
\* written by toISOString() (UTC digits, "Z"); nowISO is DateTime.now().toISO(),
\* the digits of the host's wall clock and its offset.
IsoTextGte(start, clock) == start >= ToLocal(clock, ServerZone)

\* The booking rows the query of part_001 returns: of the business, not
\* before nowISO, the first CancelLimit by start.
UpcomingRows(rows, businessId, clock) ==
  LET hit == { r \in rows : /\ r.business_id = businessId
                            /\ r.call_type = "booking"
                            /\ IsoTextGte(r.start, clock) }
  IN  { r \in hit : Cardinality({ q \in hit : q.start < r.start }) < CancelLimit }

\* A filter on the name alone (not the code: a variant the properties
\* must tell from it).
MatchesV3NameOnly(r, d) == ToLowerCase(r.name) = ToLowerCase(d.name)

\* The filter of part_001: the name and (the email or the phone), texts
\* compared without regard to case.
MatchesV3(r, d) ==
  /\ ToLowerCase(r.name) = ToLowerCase(d.name)
  /\ \/ d.email # NoText /\ r.email # NoText /\ ToLowerCase(r.email) = ToLowerCase(d.email)
     \/ d.phone # NoText /\ r.phone # NoText /\ r.phone = d.phone

\* The find of index.js (cancel at line 496): the name, and the email when
\* the request has one; phoneMatch compares data.phone with itself.
MatchesV2(r, d) ==
  /\ ToLowerCase(r.name) = ToLowerCase(d.name)
  /\ d.email # NoText => ToLowerCase(r.email) = ToLowerCase(d.email)

\* A loop without the lead-time test (not the code: a variant the
\* properties must tell from it).
FirstDeletableNoLead(matches, clock) ==
  { r \in matches : \A q \in matches : r.start <= q.start }

\* The rows the loop of part_001 may stop at: the earliest match that is
\* at least MinCancelLeadMin away (rows of one start come in any order).
FirstDeletable(matches, clock) ==
  LET ok == { r \in matches : r.start - clock >= MinCancelLeadMin }
  IN  { r \in ok : \A q \in ok : r.start <= q.start }

\* The rows the find of index.js may stop at: the latest created match.
LatestCreated(matches) ==
  { r \in matches : \A q \in matches : r.created_at >= q.created_at }

\* A cancel request arrives: validation, the stats query, the matching and
\* the choice of the appointment to delete.
CX_Receive(p, variant, d) ==
  /\ proc[p].pc = "idle"
  /\ LET v2      == variant = "index_v2"
         all     == { r \in stats : r.business_id = d.business_id /\ r.call_type = "booking" }
         found   == IF v2 THEN all ELSE UpcomingRows(stats, d.business_id, now)
         matches == { r \in found : IF v2 THEN MatchesV2(r, d) ELSE MatchesV3(r, d) }
         targets == IF v2 THEN LatestCreated(matches) ELSE FirstDeletable(matches, now)
         loc     == [NoLoc EXCEPT !.clock = now]
         begin(pc, l, resp) ==
           proc' = [proc EXCEPT ![p] = [pc |-> pc, kind |-> "cancel", variant |-> variant,
                                        data |-> d, loc |-> l, resp |-> resp]]
     IN  IF d.name = NoText \/ (d.email = NoText /\ d.phone = NoText)
            \/ d.calendarId = NoCal \/ d.business_id = ""
           THEN Works /\ begin("done", NoLoc, Resp(200, "error", "missing_fields"))
         ELSE \/ /\ Fails
                 /\ begin("done", loc, Resp(200, "not_found", "no_recent_appointments"))
              \/ /\ Works
                 /\ found = {}
                 /\ begin("done", loc, Resp(200, "not_found", "no_recent_appointments"))
              \/ /\ Works
                 /\ found # {} /\ matches = {}
                 /\ begin("done", loc, Resp(200, "not_found", "no_matching_appointment"))
              \/ /\ Works
                 /\ matches # {} /\ targets = {}
                 /\ begin("done", loc, Resp(200, "rejected", "too_close_to_cancel"))
              \/ /\ Works
                 /\ \E r \in targets :
                      begin("cx_delete", [loc EXCEPT !.gcalId = r.appointment_id,
                                                     !.start = r.start, !.end = r.end], NoResp)
  /\ UNCHANGED <<now, ticks, cal, appts, stats>>

\* A cancel that goes on to delete the record when the calendar delete
\* failed (not the code: a variant the properties must tell from it).
CX_CalDeleteThenPurge(p) ==
  /\ proc[p].pc = "cx_delete"
  /\ LET loc   == proc[p].loc
         calId == proc[p].data.calendarId
         there == \E ev \in cal[calId] : ev.id = loc.gcalId
     IN  \/ /\ Works /\ there
            /\ cal' = EventsDelete(cal, calId, loc.gcalId)
            /\ Goto(p, "cx_purge", loc)
         \/ /\ Works /\ ~there
            /\ cal' = cal
            /\ Goto(p, "cx_purge_gone", loc)
         \/ /\ Fails
            /\ cal' = cal
            /\ Goto(p, "cx_purge", loc)
  /\ UNCHANGED <<now, ticks, appts, stats>>

\* calendar.events.delete({ calendarId, eventId }).  An event that is gone
\* is error 410; gone410 tells the two failures apart.
CX_CalDelete(p) ==
  /\ proc[p].pc = "cx_delete"
  /\ LET loc   == proc[p].loc
         calId == proc[p].data.calendarId
         there == \E ev \in cal[calId] : ev.id = loc.gcalId
         v2    == proc[p].variant = "index_v2"
     IN  \/ /\ Works /\ there
            /\ cal' = EventsDelete(cal, calId, loc.gcalId)
            /\ IF v2 THEN Answer(p, loc, Resp(200, "success", "cancelled"))
                     ELSE Goto(p, "cx_purge", loc)
         \/ /\ Works /\ ~there
            /\ cal' = cal
            /\ IF v2 THEN Answer(p, loc, Resp(200, "error", "failed_to_cancel"))
                     ELSE Goto(p, "cx_purge_gone", loc)
         \/ /\ Fails
            /\ cal' = cal
            /\ Answer(p, loc, Resp(200, "error", "failed_to_cancel"))
  /\ UNCHANGED <<now, ticks, appts, stats>>

\* supabase.from('stats').delete().eq('appointment_id', ...), whose result
\* is not looked at, after the delete or in the 410 branch; then the answer.
CX_Purge(p) ==
  /\ proc[p].pc \in {"cx_purge", "cx_purge_gone"}
  /\ LET loc == proc[p].loc
     IN  /\ \/ /\ Works
               /\ stats' = { r \in stats : r.appointment_id # loc.gcalId }
            \/ /\ Fails
               /\ stats' = stats
         /\ IF proc[p].pc = "cx_purge"
              THEN Answer(p, loc, Resp(200, "success", "cancelled"))
              ELSE Answer(p, loc, Resp(200, "already_deleted", "gone"))
  /\ UNCHANGED <<now, ticks, cal, appts>>

\* ----------------------------------------------------- /action findNearest

\* A loop that stops one turn early, `delta < window` (not the code: a
\* variant the properties must tell from it).
LastStepShort == (WindowMin \div StepMin) - 1

\* A loop that goes one turn too far, `delta <= window + step` (not the
\* code: a variant the properties must tell from it).
LastStepLong == (WindowMin \div StepMin) + 1

\* The last turn of `for (delta = 0; delta <= window; delta += step)`.
LastStep == WindowMin \div StepMin

\* What the loop works with.  part_001: the request's fields or DEFAULTS
\* (data.durationMin || DEFAULTS.durationMin, data.maxOverlaps ||
\* DEFAULTS.maxOverlaps).  The first findNearest of index.js: the constants
\* of the file and the host's zone.
NearestParams(variant, d) ==
  IF variant = "index_v1"
    THEN [ tz |-> ServerZone, officeStart |-> V1OfficeStart, officeEnd |-> V1OfficeEnd,
           duration |-> V1DurationMin, capacity |-> V1MaxOverlaps,
           calendarId |-> EnvCalendarId, blockingId |-> EnvBlockingCalendarId ]
    ELSE [ tz |-> OrText(d.timezone, "America/Vancouver"),
           officeStart |-> Coalesce(d.officeStart, BookOfficeStart),
           officeEnd |-> Coalesce(d.officeEnd, BookOfficeEnd),
           duration |-> IF d.durationMin = Absent \/ d.durationMin = 0
                          THEN BookDurationMin ELSE d.durationMin,
           capacity |-> IF d.maxOverlaps = Absent \/ d.maxOverlaps = 0
                          THEN BookMaxOverlaps ELSE d.maxOverlaps,
           calendarId |-> d.calendarId,
           blockingId |-> OrText(d.blockingCalendarId, d.calendarId) ]

\* The candidate of turn k in direction dir (-1 or +1): wanted + dir * delta.
CandidateStart(variant, d, k, dir) ==
  FromLocal(d.bookingTime, NearestParams(variant, d).tz) + dir * k * StepMin

\* The candidate passes the hours check of the loop.
CandidateInHours(variant, d, k, dir) ==
  LET prm   == NearestParams(variant, d)
      start == CandidateStart(variant, d, k, dir)
  IN  ~OutsideHoursWholeHour(start, start + prm.duration, prm.tz,
                             prm.officeStart, prm.officeEnd)

\* The two calendar answers for the candidate: freebusy of the blocking
\* calendar is empty, and events.list of the calendar has fewer than
\* maxOverlaps items.
CandidateOpen(variant, d, calendars, k, dir) ==
  LET prm   == NearestParams(variant, d)
      start == CandidateStart(variant, d, k, dir)
      end   == start + prm.duration
  IN  /\ Busy(calendars, prm.blockingId, start, end) = {}
      /\ Cardinality(Busy(calendars, prm.calendarId, start, end)) < prm.capacity

\* A findNearest request arrives.
FN_Receive(p, variant, d) ==
  /\ proc[p].pc = "idle"
  /\ IF variant # "index_v1" /\ (d.calendarId = NoCal \/ d.bookingTime = Absent)
       THEN proc' = [proc EXCEPT ![p] =
                       [pc |-> "done", kind |-> "findNearest", variant |-> variant,
                        data |-> d, loc |-> NoLoc, resp |-> Resp(200, "error", "missing_fields")]]
       ELSE proc' = [proc EXCEPT ![p] =
                       [pc |-> "fn_probe", kind |-> "findNearest", variant |-> variant,
                        data |-> d, loc |-> [NoLoc EXCEPT !.k = 0, !.dir = -1, !.clock = now],
                        resp |-> NoResp]]
  /\ UNCHANGED <<now, ticks, cal, appts, stats, faults>>

\* One candidate of the loop: the hours check, the freebusy query and the
\* events list; then the next direction, the next turn, or the answer.
FN_Probe(p) ==
  /\ proc[p].pc = "fn_probe"
  /\ LET d    == proc[p].data
         v    == proc[p].variant
         loc  == proc[p].loc
         next == IF loc.dir = -1 THEN [loc EXCEPT !.dir = 1]
                 ELSE [loc EXCEPT !.k = @ + 1, !.dir = -1]
         skip == IF next.k > LastStep
                   THEN Answer(p, loc, Resp(200, "not_found", "no_slot_found"))
                   ELSE Goto(p, "fn_probe", next)
         start == CandidateStart(v, d, loc.k, loc.dir)
     IN  IF ~CandidateInHours(v, d, loc.k, loc.dir)
           THEN Works /\ skip
         ELSE \/ /\ Fails
                 /\ proc' = [proc EXCEPT ![p].pc = "crashed"]
              \/ /\ Works
                 /\ IF CandidateOpen(v, d, cal, loc.k, loc.dir)
                      THEN Answer(p, [loc EXCEPT !.start = start,
                                                 !.end = start + NearestParams(v, d).duration],
                                  Resp(200, "success",
                                       IF loc.dir > 0 THEN "after" ELSE "before"))
                      ELSE skip
  /\ UNCHANGED <<now, ticks, cal, appts, stats>>

\* ------------------------------------------------------------------- clock

\* Time passes.  The handlers read the clock in their first step only, so
\* a tick between two later steps is a tick before the next request.
Tick ==
  /\ ticks < MaxTicks
  /\ \A p \in Procs : proc[p].pc \in {"idle", "done", "crashed", "unanswered"}
  /\ now' = now + ClockStep
  /\ ticks' = ticks + 1
  /\ UNCHANGED <<cal, appts, stats, proc, faults>>

\* ------------------------------------------------------------ the requests

\* Wall clock times (day 1) the requests ask for.
At(hour, minute) == MinutesPerDay + hour * MinutesPerHour + minute

Chicago == "America/Chicago"

Customers ==
  { [name |-> Ann, email |-> AnnMail, phone |-> NoText],
    [name |-> AnnSpaced, email |-> AnnMailUpper, phone |-> NoText],
    [name |-> Bob, email |-> NoText, phone |-> BobPhone] }

Nameless == [name |-> NoText, email |-> AnnMail, phone |-> NoText]

Request(c, t, b) ==
  [NoData EXCEPT !.name = c.name, !.email = c.email, !.phone = c.phone,
                 !.bookingTime = t, !.calendarId = MainCal,
                 !.blockingCalendarId = b, !.business_id = Biz, !.timezone = Chicago]

\* /testdrive requests, one at a time: fields missing, times that cannot
\* be read, too soon, inside and outside the hours, across midnight, models
\* known and unknown, capacities and closing times given or left out.
TdRequests ==
  { [Request(c, t, b) EXCEPT !.model = m, !.maxOverlaps = mo, !.officeEnd = oe] :
      c \in Customers \cup {Nameless},
      t \in {Absent, InvalidTime, At(9, 15), At(11, 0), At(17, 15), At(19, 45), At(23, 45)},
      b \in {NoCal, HoldCal}, m \in {NoText, ModelR8Lower, ModelX5},
      mo \in {Absent, 1}, oe \in {Absent, HalfPastFive} }

\* book requests, one at a time.
BookRequests ==
  { [Request(c, t, b) EXCEPT !.maxOverlaps = mo, !.officeEnd = oe, !.durationMin = du] :
      c \in Customers \cup {Nameless},
      t \in {Absent, InvalidTime, At(9, 15), At(11, 0), At(17, 15), At(19, 45)},
      b \in {NoCal, HoldCal}, mo \in {Absent, 1}, oe \in {Absent, HalfPastFive},
      du \in {Absent, TestDriveDurationMin} }

\* /testdrive requests in flight together, all for one time: the model
\* with one unit by two customers, and another model by the first of them.
AnnAsTyped == [name |-> Ann, email |-> AnnMail, phone |-> NoText]

RaceRequests ==
  { [Request(c, At(11, 0), HoldCal) EXCEPT !.model = ModelR8Lower] :
      c \in { c \in Customers : c.name # AnnSpaced } }
    \cup { [Request(AnnAsTyped, At(11, 0), HoldCal) EXCEPT !.model = ModelQ5] }

\* /testdrive requests of one customer sent again, all for one time: the
\* model with two units with the name written in two ways, and the model
\* with one unit.
ResendRequests ==
  { [Request(c, At(11, 0), HoldCal) EXCEPT !.model = ModelQ5] :
      c \in { c \in Customers : c.name # Bob } }
    \cup { [Request(AnnAsTyped, At(11, 0), HoldCal) EXCEPT !.model = ModelR8Lower] }

\* book and cancel requests in flight together.
CancelBookRequests ==
  { Request([name |-> Ann, email |-> AnnMail, phone |-> NoText], At(10, 0), HoldCal),
    Request([name |-> Bob, email |-> NoText, phone |-> BobPhone], At(11, 0), HoldCal) }

CancelRequests ==
  { Request([name |-> Ann, email |-> AnnMailUpper, phone |-> NoText], Absent, NoCal),
    Request([name |-> Bob, email |-> NoText, phone |-> BobPhone], Absent, NoCal) }

\* findNearest requests.
NearestRequests ==
  { [Request(Nameless, t, b) EXCEPT !.maxOverlaps = mo, !.durationMin = du, !.officeEnd = oe] :
      t \in {At(8, 0), At(11, 0), At(16, 0)}, b \in {NoCal, HoldCal},
      mo \in {Absent, 1}, du \in {Absent, TestDriveDurationMin},
      oe \in {Absent, HalfPastFive} }

\* Events other clients put on the calendars.
Event(id, from, to) ==
  [id |-> id, start |-> FromLocal(from, Chicago), end |-> FromLocal(to, Chicago)]

ExternalEvent(id) == Event(id, At(11, 0), At(11, 30))

NoEvents == [c \in CalIds |-> {}]

Calendars(main, hold) == [c \in CalIds |-> IF c = MainCal THEN main ELSE hold]

\* Appointments made by book before the run: the event and its stats row.
Prebooked(id, c, from) ==
  [ event |-> Event(id, from, from + BookDurationMin),
    row   |-> StatsRow(id, Request(c, from, HoldCal), "booking", id,
                       FromLocal(from, Chicago), FromLocal(from + BookDurationMin, Chicago),
                       "", Now0) ]

PrebookedSets ==
  LET ann == [name |-> Ann, email |-> AnnMail, phone |-> NoText]
  IN  { {}, {Prebooked(201, ann, At(9, 45))},
        {Prebooked(201, ann, At(9, 45)), Prebooked(202, ann, At(11, 0))} }

InitSlots(n) ==
  /\ now = Now0
  /\ ticks = 0
  /\ appts = {}
  /\ proc = [p \in 1..n |-> IdleProc]
  /\ faults = 0

InitEmpty == InitSlots(NumProcs)

\* Slots are taken in order: which slot serves a request is immaterial.
Free(p) == proc[p].pc = "idle" /\ \A q \in Procs : q < p => proc[q].pc # "idle"

\* No other request has arrived.
Alone(p) == Free(p) /\ \A q \in Procs : proc[q].pc = "idle"

\* ---- one booking request, any fields, any calendars

InitSingle ==
  /\ InitEmpty
  /\ stats = {}
  /\ cal \in { Calendars(m, h) :
                 m \in {{}, {ExternalEvent(101)},
                        {ExternalEvent(101), ExternalEvent(103), ExternalEvent(104)}},
                 h \in {{}, {ExternalEvent(102)}} }

NextSingle ==
  \/ Tick
  \/ \E p \in Procs :
       \/ Alone(p) /\ \E v \in {"part_001", "index"}, d \in TdRequests : TD_Receive(p, v, d)
       \/ TD_PickCar(p)
       \/ TD_Upsert(p)
       \/ TD_CalInsert(p)
       \/ TD_Rollback(p)
       \/ TD_Attach(p)
       \/ Alone(p) /\ \E v \in {"part_002", "index_v1"}, d \in BookRequests : BK_Receive(p, v, d)
       \/ BK_CalInsert(p)
       \/ BK_Stats(p)

SpecSingle == InitSingle /\ [][NextSingle]_vars

\* ---- /testdrive requests in flight together

InitRace ==
  /\ InitSlots(RaceProcs)
  /\ stats = {}
  /\ cal = NoEvents

NextRace ==
  \E p \in Procs :
    \/ Free(p) /\ \E d \in RaceRequests : TD_Receive(p, "part_001", d)
    \/ TD_PickCar(p)
    \/ TD_Upsert(p)
    \/ TD_CalInsert(p)
    \/ TD_Rollback(p)
    \/ TD_Attach(p)

SpecRace == InitRace /\ [][NextRace]_vars

\* ---- /testdrive requests sent again, in flight together or one after
\* the other

NextResend ==
  \E p \in Procs :
    \/ Free(p) /\ \E d \in ResendRequests : TD_Receive(p, "part_001", d)
    \/ TD_PickCar(p)
    \/ TD_Upsert(p)
    \/ TD_CalInsert(p)
    \/ TD_Rollback(p)
    \/ TD_Attach(p)

InitResend ==
  /\ InitEmpty
  /\ stats = {}
  /\ cal = NoEvents

SpecResend == InitResend /\ [][NextResend]_vars

\* ---- book and cancel

InitCancel ==
  /\ InitEmpty
  /\ \E pre \in PrebookedSets :
       /\ stats = { b.row : b \in pre }
       /\ cal = Calendars({ b.event : b \in pre }, {})

NextCancel ==
  \/ Tick
  \/ \E p \in Procs :
       \/ Free(p) /\ \E d \in CancelBookRequests : BK_Receive(p, "part_002", d)
       \/ BK_CalInsert(p)
       \/ BK_Stats(p)
       \/ Free(p) /\ \E v \in {"part_001", "index_v2"}, d \in CancelRequests : CX_Receive(p, v, d)
       \/ CX_CalDelete(p)
       \/ CX_Purge(p)

SpecCancel == InitCancel /\ [][NextCancel]_vars

\* ---- cancel of part_001 over the appointments of several customers

\* Another customer called Ann, known by the phone number Bob gave.
AnnByPhone == [name |-> Ann, email |-> NoText, phone |-> BobPhone]

\* The appointments in the store: Ann's at 09:45, 12:00 and 14:00, the
\* other Ann's at 10:30, Bob's at 11:00.
TargetPrebooked ==
  LET ann == [name |-> Ann, email |-> AnnMail, phone |-> NoText]
      bob == [name |-> Bob, email |-> NoText, phone |-> BobPhone]
      a1  == Prebooked(201, ann, At(9, 45))
      a2  == Prebooked(202, ann, At(12, 0))
      o1  == Prebooked(203, AnnByPhone, At(10, 30))
      b1  == Prebooked(204, bob, At(11, 0))
      a3  == Prebooked(205, ann, At(14, 0))
  IN  { {}, {a1, a2}, {a1, o1, a2}, {o1, b1, a2}, {a1, a2, o1, b1}, {a2, a3} }

\* cancel requests: by name and email (in other letter case), by name and
\* phone, and with nothing but the name.
TargetRequests ==
  { Request([name |-> Ann, email |-> AnnMailUpper, phone |-> NoText], Absent, NoCal),
    Request(AnnByPhone, Absent, NoCal),
    Request([name |-> Bob, email |-> AnnMail, phone |-> BobPhone], Absent, NoCal),
    Request([name |-> Ann, email |-> NoText, phone |-> NoText], Absent, NoCal) }

InitTarget ==
  /\ InitEmpty
  /\ \E pre \in TargetPrebooked :
       /\ stats = { b.row : b \in pre }
       /\ cal = Calendars({ b.event : b \in pre }, {})

NextTarget ==
  \/ Tick
  \/ \E p \in Procs :
       \/ Free(p) /\ \E d \in TargetRequests : CX_Receive(p, "part_001", d)
       \/ CX_CalDelete(p)
       \/ CX_Purge(p)

SpecTarget == InitTarget /\ [][NextTarget]_vars

\* ---- /testdrive requests of two customers for the units of the inventory

\* Requests for 11:00: a model with two units, with one unit, with none
\* that is active; no trim, or a trim that is required.
UnitRequests ==
  { [Request(c, At(11, 0), HoldCal) EXCEPT !.model = m, !.trim = tr, !.requireExactTrim = tr # NoText] :
      c \in { [name |-> Ann, email |-> AnnMail, phone |-> NoText],
              [name |-> Bob, email |-> NoText, phone |-> BobPhone] },
      m \in {ModelQ5, ModelR8Lower, ModelA8},
      tr \in {NoText, TrimBase, TrimSport} }

InitUnits ==
  /\ InitEmpty
  /\ stats = {}
  /\ cal = NoEvents

NextUnits ==
  \E p \in Procs :
    \/ Free(p) /\ \E d \in UnitRequests : TD_Receive(p, "part_001", d)
    \/ TD_PickCar(p)
    \/ TD_Upsert(p)
    \/ TD_CalInsert(p)
    \/ TD_Rollback(p)
    \/ TD_Attach(p)

SpecUnits == InitUnits /\ [][NextUnits]_vars

\* ---- /testdrive of part_002: requests that name a unit themselves

\* An id that no row of "cars" has.
NoSuchCar == 9

\* Requests with no car_id, with the id of an active unit of the business,
\* of an inactive unit, of a unit of another business, of no unit; with a
\* time that is fine, too soon, or cannot be read; capacity given or not.
CarIdRequests ==
  { [Request(c, t, HoldCal) EXCEPT !.model = ModelQ5, !.car_id = id, !.maxOverlaps = mo] :
      c \in { [name |-> Ann, email |-> AnnMail, phone |-> NoText],
              [name |-> Bob, email |-> NoText, phone |-> BobPhone] },
      t \in {At(9, 15), At(11, 0), InvalidTime},
      id \in {Null, 2, 4, 5, NoSuchCar},
      mo \in {Absent, 1} }

InitCarId ==
  /\ InitEmpty
  /\ stats = {}
  /\ cal \in { Calendars({}, h) : h \in {{}, {ExternalEvent(102)}} }

NextCarId ==
  \E p \in Procs :
    \/ Free(p) /\ \E d \in CarIdRequests : TDC_Receive(p, d)
    \/ TDC_CalInsert(p)
    \/ TDC_ApptInsert(p)

SpecCarId == InitCarId /\ [][NextCarId]_vars

\* ---- one booking request that sends a durationMin of its own

\* Requests for 11:00 and for 09:15 (too soon), with or without a model,
\* with no durationMin, with 0, a negative and a positive number.
WindowRequests ==
  { [Request(AnnAsTyped, t, HoldCal) EXCEPT !.model = m, !.durationMin = du] :
      t \in {At(9, 15), At(11, 0)}, m \in {NoText, ModelR8Lower},
      du \in {Absent, 0, -5, 45} }

InitWindow ==
  /\ InitEmpty
  /\ stats = {}
  /\ cal \in { Calendars(m, {}) : m \in {{}, {ExternalEvent(101)}} }

NextWindow ==
  \E p \in Procs :
    \/ Alone(p) /\ \E d \in WindowRequests : TD_Receive(p, "part_001", d)
    \/ TD_PickCar(p)
    \/ TD_Upsert(p)
    \/ TD_CalInsert(p)
    \/ TD_Rollback(p)
    \/ TD_Attach(p)
    \/ Alone(p) /\ \E d \in WindowRequests : TDC_Receive(p, d)
    \/ TDC_CalInsert(p)
    \/ TDC_ApptInsert(p)
    \/ Alone(p) /\ \E d \in WindowRequests : BK_Receive(p, "part_002", d)
    \/ BK_CalInsert(p)
    \/ BK_Stats(p)

SpecWindow == InitWindow /\ [][NextWindow]_vars

\* ---- book and /testdrive requests in flight together on one calendar

\* Requests of two customers for 11:00 on the calendar 'main', with a
\* blocking calendar of its own; capacity 1, 2 or the default.
CapacityRequests ==
  { [Request(c, At(11, 0), HoldCal) EXCEPT !.model = m, !.maxOverlaps = mo] :
      c \in { [name |-> Ann, email |-> AnnMail, phone |-> NoText],
              [name |-> Bob, email |-> NoText, phone |-> BobPhone] },
      m \in {NoText, ModelQ5}, mo \in {Absent, 1, 2} }

InitCapacity ==
  /\ InitEmpty
  /\ stats = {}
  /\ cal \in { Calendars(m, {}) : m \in {{}, {ExternalEvent(101)}} }

NextCapacity ==
  \E p \in Procs :
    \/ Free(p) /\ \E d \in CapacityRequests : TD_Receive(p, "part_001", d)
    \/ TD_PickCar(p)
    \/ TD_Upsert(p)
    \/ TD_CalInsert(p)
    \/ TD_Rollback(p)
    \/ TD_Attach(p)
    \/ Free(p) /\ \E d \in CapacityRequests : BK_Receive(p, "part_002", d)
    \/ BK_CalInsert(p)
    \/ BK_Stats(p)

SpecCapacity == InitCapacity /\ [][NextCapacity]_vars

\* ---- one booking request that passes the checks, or fails one of them

\* 12, an opening time after the requested 11:00.
Noon == 12 * MinutesPerHour

\* Booking requests of one customer, with every required field: too soon
\* or an hour and more ahead, with or without a blocking calendar of its
\* own, a model of the inventory, a capacity, an opening time after the
\* requested time.
AcceptRequests ==
  { [Request(AnnAsTyped, t, b) EXCEPT !.model = m, !.maxOverlaps = mo, !.officeStart = os] :
      t \in {At(9, 15), At(11, 0)}, b \in {NoCal, HoldCal},
      m \in {NoText, ModelR8Lower}, mo \in {Absent, 2, 5}, os \in {Absent, Noon} }

InitAccept ==
  /\ InitEmpty
  /\ stats = {}
  /\ cal \in { Calendars(m, h) :
                 m \in {{}, {ExternalEvent(101), ExternalEvent(103)}},
                 h \in {{}, {ExternalEvent(102)}} }

NextAccept ==
  \E p \in Procs :
    \/ Alone(p) /\ \E d \in AcceptRequests : TD_Receive(p, "part_001", d)
    \/ TD_PickCar(p)
    \/ TD_Upsert(p)
    \/ TD_CalInsert(p)
    \/ TD_Rollback(p)
    \/ TD_Attach(p)
    \/ Alone(p) /\ \E d \in AcceptRequests : BK_Receive(p, "index_v2", d)
    \/ BK_CalInsert(p)
    \/ BK_Stats(p)

SpecAccept == InitAccept /\ [][NextAccept]_vars

\* ---- one booking request for which several rejections may hold at once

\* Times before the opening and already past, too soon, inside the hours,
\* after the closing; capacities given or left out.
OrderRequests ==
  { [Request(AnnAsTyped, t, b) EXCEPT !.model = m, !.maxOverlaps = mo] :
      t \in {At(7, 0), At(9, 15), At(11, 0), At(19, 45)}, b \in {NoCal, HoldCal},
      m \in {NoText, ModelR8Lower}, mo \in {Absent, 1} }

\* An event that covers the whole day and the days around it.
AllDayEvent(id) == Event(id, At(0, 0) - MinutesPerDay, At(23, 0) + MinutesPerDay)

InitOrder ==
  /\ InitEmpty
  /\ stats = {}
  /\ cal \in { Calendars(m, h) :
                 m \in {{}, {ExternalEvent(101)}, {AllDayEvent(108)}},
                 h \in {{}, {ExternalEvent(102)}, {AllDayEvent(109)}} }

NextOrder ==
  \E p \in Procs :
    \/ Alone(p) /\ \E d \in OrderRequests : TD_Receive(p, "part_001", d)
    \/ TD_PickCar(p)
    \/ TD_Upsert(p)
    \/ TD_CalInsert(p)
    \/ TD_Rollback(p)
    \/ TD_Attach(p)
    \/ Alone(p) /\ \E d \in OrderRequests : BK_Receive(p, "part_002", d)
    \/ BK_CalInsert(p)
    \/ BK_Stats(p)

SpecOrder == InitOrder /\ [][NextOrder]_vars

\* ---- findNearest over calendars that do not change

\* The blocking calendar: empty, one hold, holds all around 11:00 but for
\* 11:45-12:15, a hold until 16:00, holds all day.
NearestHolds ==
  { {}, {ExternalEvent(102)},
    {Event(105, At(0, 0), At(11, 45)), Event(106, At(12, 15), At(23, 0))},
    {Event(107, At(0, 0) - MinutesPerDay, At(16, 0))},
    {Event(105, At(0, 0) - MinutesPerDay, At(23, 0) + MinutesPerDay)} }

InitNearest ==
  /\ InitEmpty
  /\ stats = {}
  /\ cal \in { Calendars(m, h) : m \in {{}, {ExternalEvent(101)}}, h \in NearestHolds }

NextNearest ==
  \E p \in Procs :
    \/ Alone(p) /\ \E v \in {"part_001", "index_v1"}, d \in NearestRequests : FN_Receive(p, v, d)
    \/ FN_Probe(p)

SpecNearest == InitNearest /\ [][NextNearest]_vars

\* The same, with every request that is in its loop going on with it: a
\* handler that has been started runs (the awaits of the loop are answered
\* or throw).
SpecNearestLive ==
  /\ InitNearest
  /\ [][NextNearest]_vars
  /\ \A p \in 1..NumProcs : WF_vars(FN_Probe(p))

\* ---- findNearest, then book of the slot it returned

\* toLocalISOString(date): the wall clock of the host's zone followed by
\* the host's offset.
ToLocalISOString(t) == ToLocal(t, ServerZone)

\* What DateTime.fromISO(text, { zone }) reads from such a text: the
\* instant the text names, seen in the zone of the request.
FromOffsetISO(text, tz) == ToLocal(FromLocal(text, ServerZone), tz)

\* The book request a client makes of the slot request q was given: the
\* fields of the findNearest request and the returned start.
BookOfSlot(q) ==
  [proc[q].data EXCEPT
     !.name = Ann,
     !.bookingTime = FromOffsetISO(ToLocalISOString(proc[q].loc.start),
                                   NearestParams(proc[q].variant, proc[q].data).tz)]

\* Request q was given a slot and nothing has been booked since.
SlotGiven(q) ==
  /\ proc[q].kind = "findNearest"
  /\ proc[q].pc = "done"
  /\ proc[q].resp.status = "success"
  /\ \A r \in Procs : proc[r].kind # "book"

InitBookable == InitNearest

NextBookable ==
  \E p \in Procs :
    \/ Alone(p) /\ \E d \in NearestRequests : FN_Receive(p, "part_002", d)
    \/ FN_Probe(p)
    \/ Free(p) /\ \E q \in Procs : SlotGiven(q) /\ BK_Receive(p, "part_002", BookOfSlot(q))
    \/ BK_CalInsert(p)
    \/ BK_Stats(p)

SpecBookable == InitBookable /\ [][NextBookable]_vars

\* ---- /testdrive requests that are turned away, alone or beside another

\* Requests that come alone: for a model the business does not have, for
\* a trim that is required and that no unit has, requests that cannot be
\* read, are too soon, too late in the day or at the time of a hold, a
\* request for a calendar with room for one, and a request without a name.
FrameRequests ==
  { [Request(AnnAsTyped, At(11, 0), HoldCal) EXCEPT !.model = ModelX5],
    [Request(AnnAsTyped, At(11, 0), HoldCal) EXCEPT !.model = ModelR8Lower, !.trim = TrimBase,
                                                    !.requireExactTrim = TRUE],
    [Request(AnnAsTyped, At(11, 0), HoldCal) EXCEPT !.model = ModelR8Lower, !.maxOverlaps = 1],
    [Request(Nameless, At(11, 0), HoldCal) EXCEPT !.model = ModelR8Lower] }
    \cup { [Request(AnnAsTyped, t, HoldCal) EXCEPT !.model = ModelR8Lower] :
             t \in {InvalidTime, At(9, 15), At(21, 0), At(13, 0)} }

\* Requests in flight together: two customers ask for the model with one
\* unit at 11:00.
FrameRivals ==
  { [Request(c, At(11, 0), HoldCal) EXCEPT !.model = ModelR8Lower] :
      c \in { [name |-> Ann, email |-> AnnMail, phone |-> NoText],
              [name |-> Bob, email |-> NoText, phone |-> BobPhone] } }

InitFrame ==
  /\ InitEmpty
  /\ stats = {}
  /\ cal \in { Calendars(m, h) : m \in {{}, {ExternalEvent(101)}},
                                 h \in {{}, {Event(102, At(13, 0), At(13, 30))}} }

NextFrame ==
  \E p \in Procs :
    \/ Alone(p) /\ \E d \in FrameRequests : TD_Receive(p, "part_001", d)
    \/ Free(p) /\ \E d \in FrameRivals : TD_Receive(p, "part_001", d)
    \/ TD_PickCar(p)
    \/ TD_Upsert(p)
    \/ TD_CalInsert(p)
    \/ TD_Rollback(p)
    \/ TD_Attach(p)

SpecFrame == InitFrame /\ [][NextFrame]_vars

\* ---- cancel of part_001 at a business with many upcoming bookings

\* The appointments in the store: n of Bob's, a quarter of an hour apart
\* from 10:15 on, and after them Ann's at 15:00.
BusyPrebooked(n) ==
  LET ann == [name |-> Ann, email |-> AnnMail, phone |-> NoText]
      bob == [name |-> Bob, email |-> NoText, phone |-> BobPhone]
  IN  { Prebooked(300 + i, bob, At(10, 0) + i * StepMin) : i \in 1..n }
        \cup { Prebooked(201, ann, At(15, 0)) }

\* cancel requests of the two customers.
BusyRequests ==
  { Request([name |-> Ann, email |-> AnnMail, phone |-> NoText], Absent, NoCal),
    Request([name |-> Bob, email |-> NoText, phone |-> BobPhone], Absent, NoCal) }

InitBusy ==
  /\ InitEmpty
  /\ \E n \in {0, CancelLimit - 1, CancelLimit} :
       /\ stats = { b.row : b \in BusyPrebooked(n) }
       /\ cal = Calendars({ b.event : b \in BusyPrebooked(n) }, {})

NextBusy ==
  \/ Tick
  \/ \E p \in Procs :
       \/ Free(p) /\ \E d \in BusyRequests : CX_Receive(p, "part_001", d)
       \/ CX_CalDelete(p)
       \/ CX_Purge(p)

SpecBusy == InitBusy /\ [][NextBusy]_vars

\* ---- a booking, then its cancel

\* Bookings of one customer with an email: 45 minutes and two hours ahead,
\* with a model (for /testdrive) or without.
RoundRequests ==
  { [Request(AnnAsTyped, t, HoldCal) EXCEPT !.model = m] :
      t \in {At(9, 45), At(11, 0)}, m \in {NoText, ModelR8Lower} }

\* The cancel request of the customer of booking q: the same business_id,
\* calendarId, name and email.
CancelOf(q) ==
  [NoData EXCEPT !.business_id = proc[q].data.business_id,
                 !.calendarId = proc[q].data.calendarId,
                 !.name = proc[q].data.name,
                 !.email = proc[q].data.email]

\* Booking q has been answered success.
Booked(q) ==
  /\ proc[q].kind \in {"book", "testdrive"}
  /\ proc[q].pc = "done"
  /\ proc[q].resp.status = "success"

InitRound ==
  /\ InitEmpty
  /\ stats = {}
  /\ cal = NoEvents

NextRound ==
  \/ Tick
  \/ \E p \in Procs :
       \/ Alone(p) /\ \E d \in RoundRequests : TD_Receive(p, "part_001", d)
       \/ TD_PickCar(p)
       \/ TD_Upsert(p)
       \/ TD_CalInsert(p)
       \/ TD_Rollback(p)
       \/ TD_Attach(p)
       \/ Alone(p) /\ \E d \in RoundRequests : BK_Receive(p, "part_002", d)
       \/ BK_CalInsert(p)
       \/ BK_Stats(p)
       \/ Free(p) /\ \E q \in Procs : Booked(q) /\ CX_Receive(p, "part_001", CancelOf(q))
       \/ CX_CalDelete(p)
       \/ CX_Purge(p)

SpecRound == InitRound /\ [][NextRound]_vars

\* ---- a cancel request, then the same request again

\* Cancel request q has been answered success.
Cancelled(q) ==
  /\ proc[q].kind = "cancel"
  /\ proc[q].pc = "done"
  /\ proc[q].resp.status = "success"

InitRepeat == InitTarget

NextRepeat ==
  \/ Tick
  \/ \E p \in Procs :
       \/ Alone(p) /\ \E d \in TargetRequests : CX_Receive(p, "part_001", d)
       \/ Free(p) /\ \E q \in Procs : Cancelled(q) /\ CX_Receive(p, "part_001", proc[q].data)
       \/ CX_CalDelete(p)
       \/ CX_Purge(p)

SpecRepeat == InitRepeat /\ [][NextRepeat]_vars

\* ---- one window put to /testdrive and to book

\* Office bounds on the hour, in minutes of the day.
WholeHours == { MinutesPerHour * h : h \in {9, 12, 17} }

\* /testdrive requests for the day after: windows before, at, inside and
\* after the bounds, and at the end of the day.
HoursRequests ==
  { [Request(AnnAsTyped, At(h, m) + MinutesPerDay, HoldCal)
       EXCEPT !.officeStart = os, !.officeEnd = oe] :
      h \in {8, 9, 11, 16, 17, 23}, m \in {0, 15, 30, 45},
      os \in {MinutesPerHour * 9}, oe \in {MinutesPerHour * 12, MinutesPerHour * 17} }

\* The book request for the window of /testdrive request q: the same
\* fields, and the duration /testdrive works with.
BookOfWindow(q) == [proc[q].data EXCEPT !.durationMin = TestDriveDurationMin]

InitHours ==
  /\ InitEmpty
  /\ stats = {}
  /\ cal = NoEvents

NextHours ==
  \E p \in Procs :
    \/ Alone(p) /\ \E d \in HoursRequests : TD_Receive(p, "part_001", d)
    \/ TD_Upsert(p)
    \/ TD_CalInsert(p)
    \/ TD_Rollback(p)
    \/ TD_Attach(p)
    \/ Free(p) /\ \E q \in Procs :
         proc[q].kind = "testdrive" /\ BK_Receive(p, "part_002", BookOfWindow(q))
    \/ BK_CalInsert(p)
    \/ BK_Stats(p)

SpecHours == InitHours /\ [][NextHours]_vars

\* ============================================================ properties

\* What request p has put on a calendar or in "appointments".
OwnEvent(p) == \E c \in CalIds : \E ev \in cal[c] : ev.id = FreshId(p)

OwnRow(p) == \E r \in appts : r.id = FreshId(p)

IsBooking(pr) == pr.kind \in {"book", "testdrive"}

\* The request has the fields the handlers require, and a time they can read.
HasRequired(pr) ==
  /\ pr.data.name # NoText
  /\ pr.data.bookingTime \notin {Absent, InvalidTime}
  /\ pr.data.calendarId # NoCal
  /\ pr.data.business_id # ""

RejectedWith(pr, reason) ==
  pr.pc = "done" /\ pr.resp.status = "rejected" /\ pr.resp.reason = reason

\* The capacity ceiling and the office hours the request is handled with.
CapacityOf(pr) ==
  IF pr.kind = "testdrive" THEN TdCapacity(pr.variant, pr.data)
  ELSE IF pr.variant = "index_v1" THEN V1MaxOverlaps
  ELSE BookCapacity(pr.data)

HoursOf(pr) ==
  IF pr.kind = "testdrive"
    THEN [ tz |-> OrText(pr.data.timezone, "America/Chicago"),
           officeStart |-> Coalesce(pr.data.officeStart, TdOfficeStart),
           officeEnd |-> Coalesce(pr.data.officeEnd, TdOfficeEnd) ]
  ELSE IF pr.variant = "index_v1"
    THEN [ tz |-> ServerZone, officeStart |-> V1OfficeStart, officeEnd |-> V1OfficeEnd ]
  ELSE [ tz |-> OrText(pr.data.timezone, "America/Vancouver"),
         officeStart |-> Coalesce(pr.data.officeStart, BookOfficeStart),
         officeEnd |-> Coalesce(pr.data.officeEnd, BookOfficeEnd) ]

\* ---- C1
\* C1: a booking request (book or /testdrive) with its required fields
\* whose start is less than 30 minutes after the time it is handled at is
\* answered 'rejected' / 'too_soon', and puts no event on a calendar and no
\* row in "appointments", already when no dependency call fails.  (As
\* stated by the claim; book of index.js, lines 66-133, has no such check.)
C1_TooSoonRejected ==
  \A p \in Procs :
    LET pr == proc[p]
    IN  (IsBooking(pr) /\ HasRequired(pr) /\ faults = 0
           /\ pr.loc.start - pr.loc.clock < MinLeadMin)
          => (RejectedWith(pr, "too_soon") /\ ~OwnEvent(p) /\ ~OwnRow(p))

\* C1, the case the code does handle: a request inside the hours and on a
\* free calendar, too soon only, is rejected 'too_soon'.
C1_TooSoonSeen ==
  \E p \in Procs :
    /\ RejectedWith(proc[p], "too_soon")
    /\ proc[p].data.bookingTime = At(9, 15)
    /\ ticks = 0
    /\ cal = NoEvents

\* ---- C2
\* C2: a booking request that has passed the lead-time and the hours check
\* and whose blocking calendar (blockingCalendarId, or calendarId) is busy
\* in the window is answered 'rejected' / 'slot_blocked', whatever the count
\* on the calendar and the capacity, and creates no event and no row.
C2_BlockedRejected ==
  \A p \in Procs :
    LET pr == proc[p]
    IN  (IsBooking(pr) /\ pr.loc.probed /\ pr.loc.blockBusy > 0)
          => (RejectedWith(pr, "slot_blocked") /\ ~OwnEvent(p) /\ ~OwnRow(p))

\* C2, reached: a request answered 'slot_blocked' although the calendar is
\* also at its capacity.
C2_BlockedAndFullSeen ==
  \E p \in Procs :
    /\ RejectedWith(proc[p], "slot_blocked")
    /\ proc[p].kind = "testdrive"
    /\ proc[p].data.blockingCalendarId = HoldCal
    /\ proc[p].loc.mainBusy >= CapacityOf(proc[p])

\* ---- C3
\* C3: a booking request that has passed the lead-time and the hours check,
\* whose blocking calendar is clear and whose calendar has at least
\* maxOverlaps busy intervals in the window, is answered 'rejected' /
\* 'slot_full' and inserts no event.  (As stated by the claim; book of
\* part_002 and part_001 never gives this answer.)
C3_FullRejected ==
  \A p \in Procs :
    LET pr == proc[p]
    IN  (IsBooking(pr) /\ pr.loc.probed /\ pr.loc.blockBusy = 0
           /\ pr.loc.mainBusy >= CapacityOf(pr))
          => (RejectedWith(pr, "slot_full") /\ ~OwnEvent(p))

\* C3, the case the code does handle: /testdrive answers 'slot_full'.
C3_FullSeen ==
  \E p \in Procs :
    /\ RejectedWith(proc[p], "slot_full")
    /\ proc[p].kind = "testdrive"
    /\ proc[p].loc.blockBusy = 0

\* ---- C4
\* C4: the window of every accepted booking lies inside the office hours:
\* the local time of day of its start is >= officeStart and that of its
\* end is <= officeEnd, both taken as fractional hours.  (As stated by the
\* claim; book compares whole hours.)
C4_AcceptedInsideHours ==
  \A p \in Procs :
    LET pr == proc[p]
        h  == HoursOf(pr)
    IN  (IsBooking(pr) /\ HasRequired(pr) /\ pr.pc = "done" /\ pr.resp.status = "success")
          => /\ MinuteOfDay(pr.loc.start, h.tz) >= h.officeStart
             /\ MinuteOfDay(pr.loc.end, h.tz) <= h.officeEnd

\* C4, the case the code does handle: /testdrive rejects the window that
\* ends a quarter after a closing time of 17.5.
C4_FractionalSeen ==
  \E p \in Procs :
    /\ RejectedWith(proc[p], "outside_office_hours")
    /\ proc[p].kind = "testdrive"
    /\ proc[p].data.officeEnd = HalfPastFive
    /\ proc[p].data.bookingTime = At(17, 15)

\* ---- C5
\* Two requests for the model with one unit, by different customers and
\* for the same time, and no third request for that model.
Rivals(p, q) ==
  LET a == proc[p]
      b == proc[q]
      units(pr) == CarCandidates(pr.data.business_id, pr.data.model, NoText, FALSE)
      who(pr)   == ToLowerCase(Trim(pr.data.name))
  IN  /\ p # q
      /\ a.kind = "testdrive" /\ b.kind = "testdrive"
      /\ Cardinality(units(a)) = 1
      /\ units(b) = units(a)
      /\ a.data.bookingTime = b.data.bookingTime
      /\ who(a) # who(b)
      /\ \A r \in Procs \ {p, q} :
           proc[r].pc = "idle" \/ units(proc[r]) # units(a)

Succeeds(pr) == pr.pc = "done" /\ pr.resp.status = "success"

NoDoubleBooking ==
  \A r1, r2 \in appts :
    (r1 # r2 /\ r1.car_unit_id # Null /\ r1.car_unit_id = r2.car_unit_id)
      => ~Overlaps(r1.starts_at, r1.ends_at, r2.starts_at, r2.ends_at)

\* C5: with the exclusion constraint in the store, "appointments" never
\* holds two rows of one car unit with overlapping windows; and of two
\* finished rival requests exactly one has succeeded and the other is
\* rejected, already when no dependency call fails.  (As stated by the
\* claim.)
C5_ExactlyOneWinner ==
  /\ NoDoubleBooking
  /\ \A p, q \in Procs :
       (proc[p].pc = "done" /\ proc[q].pc = "done" /\ Rivals(p, q) /\ faults = 0)
         => \/ Succeeds(proc[p]) /\ proc[q].resp.status = "rejected"
            \/ Succeeds(proc[q]) /\ proc[p].resp.status = "rejected"

\* C5, reached: both rivals were given the same unit by pick_free_car, and
\* the store turned the second upsert down.
C5_RaceSeen ==
  \E p, q \in Procs :
    /\ Rivals(p, q)
    /\ faults = 0
    /\ Succeeds(proc[p])
    /\ RejectedWith(proc[q], "overlap")
    /\ proc[q].loc.carId = proc[p].loc.carId

\* ---- C6
\* C6: "appointments" never holds two rows of one business, one start and
\* one name up to trimming and letter case, however the requests that
\* wrote them were interleaved.
C6_OneRowPerKey ==
  \A r1, r2 \in appts :
    ( /\ r1.business_id = r2.business_id
      /\ r1.starts_at = r2.starts_at
      /\ ToLowerCase(Trim(r1.name)) = ToLowerCase(Trim(r2.name)) )
      => r1 = r2

\* C6, reached: two requests that differ in the spelling of the name have
\* both written, and there is one row.
C6_SecondWriteSeen ==
  \E p, q \in Procs :
    /\ proc[p].data.name = Ann /\ proc[q].data.name = AnnSpaced
    /\ proc[p].loc.apptId # Null
    /\ proc[q].loc.apptId = proc[p].loc.apptId
    /\ proc[p].pc = "done" /\ proc[q].pc = "done"
    /\ Cardinality(appts) = 1

\* ---- C7
\* C7: a /testdrive request that repeats one that has already succeeded
\* creates no second calendar event, and when it has ended the row of the
\* booking still has the car unit and the gcal_event_id of the first
\* request, already when no dependency call fails.  (As stated by the
\* claim.)
C7_ResendSafe ==
  \A q \in Procs :
    LET pr    == proc[q]
        first == proc[pr.loc.resendOf]
    IN  (pr.kind = "testdrive" /\ pr.pc = "done" /\ pr.loc.resendOf # Null /\ faults = 0)
          => /\ ~OwnEvent(q)
             /\ \A r \in appts :
                  r.idem_key = IdemKey(pr.data.business_id, pr.loc.start, pr.data.name)
                    => /\ r.car_unit_id = first.loc.carId
                       /\ r.gcal_event_id = first.loc.gcalId

\* ---- C8
\* C8: a /testdrive request whose row was written and whose calendar
\* insert failed ends with 502 'calendar_insert_failed', and once it has
\* ended "appointments" holds no row of that request.  (As stated by the
\* claim.)
C8_RollbackLeavesNoRow ==
  \A p \in Procs :
    LET pr == proc[p]
    IN  (pr.kind = "testdrive" /\ pr.pc = "done"
           /\ pr.loc.apptId # Null /\ pr.loc.gcalId = Null)
          => /\ pr.resp.code = 502
             /\ pr.resp.reason = "calendar_insert_failed"
             /\ ~ \E r \in appts : r.id = pr.loc.apptId

\* C8, the case the code does handle: the delete answers and the row is gone.
C8_RollbackSeen ==
  \E p \in Procs :
    /\ proc[p].pc = "done"
    /\ proc[p].resp.reason = "calendar_insert_failed"
    /\ proc[p].loc.carId # Null
    /\ appts = {}

\* ---- C9
\* C9: cancel never deletes the event or the stats row of an appointment
\* whose stored start is less than 60 minutes after the time the request
\* is handled at.  (As stated by the claim; cancel of index.js, lines
\* 496-541, deletes the first match whatever its start.)
C9_NearAppointmentsKept ==
  \A p \in Procs :
    LET pr == proc[p]
    IN  (pr.kind = "cancel" /\ pr.loc.gcalId # Null
           /\ (pr.pc \in {"cx_purge", "cx_purge_gone"} \/ Succeeds(pr)))
          => pr.loc.start - pr.loc.clock >= MinCancelLeadMin

\* C9, the case the code does handle: cancel of part_001 with every match
\* too close answers 'too_close_to_cancel' and deletes nothing.
C9_TooCloseSeen ==
  \E p \in Procs :
    /\ RejectedWith(proc[p], "too_close_to_cancel")
    /\ \E r \in stats : r.call_type = "booking" /\ MatchesV3(r, proc[p].data)
                        /\ r.start - proc[p].loc.clock < MinCancelLeadMin

\* ---- C10
\* The candidates (turn, direction) of a request that pass the hours check,
\* have a clear blocking calendar and a count below the capacity.
Acceptable(pr) ==
  { c \in (0..32) \X {-1, 1} :
      /\ CandidateInHours(pr.variant, pr.data, c[1], c[2])
      /\ CandidateOpen(pr.variant, pr.data, cal, c[1], c[2]) }

\* C10: findNearest answers 'not_found' exactly when no candidate requested
\* +- k * 15 minutes, 0 <= k <= 32, is acceptable; otherwise it answers an
\* acceptable candidate of the smallest k, and when the only acceptable
\* candidate is 45 minutes after the requested time, that one with
\* direction 'after'.
C10_NearestIsNearest ==
  \A p \in Procs :
    LET pr  == proc[p]
        acc == Acceptable(pr)
    IN  (pr.kind = "findNearest" /\ pr.pc = "done" /\ pr.resp.status # "error")
          => /\ pr.resp.status = "not_found" <=> acc = {}
             /\ acc # {} =>
                  /\ pr.resp.status = "success"
                  /\ \E c \in acc :
                       /\ pr.loc.start = CandidateStart(pr.variant, pr.data, c[1], c[2])
                       /\ \A o \in acc : c[1] <= o[1]
                       /\ pr.resp.reason = (IF c[2] > 0 THEN "after" ELSE "before")
             /\ acc = {<<3, 1>>} =>
                  /\ pr.resp.reason = "after"
                  /\ pr.loc.start =
                       CandidateStart(pr.variant, pr.data, 0, 1) + 45

\* C10, reached: the only acceptable candidate is 45 minutes after the
\* requested time, and it is the answer.
C10_OnlyGapSeen ==
  \E p \in Procs :
    /\ proc[p].kind = "findNearest"
    /\ proc[p].pc = "done"
    /\ Acceptable(proc[p]) = {<<3, 1>>}
    /\ proc[p].resp.reason = "after"

\* C10, reached: the only acceptable candidate is the last one of the
\* window, 8 hours after the requested time, and it is the answer.
C10_LastTurnSeen ==
  \E p \in Procs :
    /\ proc[p].kind = "findNearest"
    /\ proc[p].pc = "done"
    /\ Acceptable(proc[p]) = {<<32, 1>>}
    /\ proc[p].resp.status = "success"

\* ---- C11
\* What cancel of part_001 is asked, as the request is taken: the rows its
\* query fetches (none when the query fails), those of the caller, and
\* those of the caller that are at least 60 minutes away.
CancelTaken(p) ==
  /\ proc[p].pc = "idle"
  /\ proc'[p].kind = "cancel"
  /\ proc'[p].variant = "part_001"
  /\ proc'[p].resp.reason # "missing_fields"

FetchedFor(p) ==
  IF faults' # faults THEN {}
  ELSE UpcomingRows(stats, proc'[p].data.business_id, now)

CallerRows(p) == { r \in FetchedFor(p) : MatchesV3(r, proc'[p].data) }

CallerRowsFarEnough(p) == { r \in CallerRows(p) : r.start - now >= MinCancelLeadMin }

\* C11: cancel answers 'not_found' when none of the fetched rows is the
\* caller's, and 'rejected' / 'too_close_to_cancel' when some fetched row
\* is the caller's and every such row starts less than 60 minutes from
\* now; and it answers neither of the two in the other's case.
C11_NegativeOutcomesApart ==
  [][ \A p \in Procs :
        CancelTaken(p) =>
          LET resp == proc'[p].resp
              none == CallerRows(p) = {}
              near == CallerRows(p) # {} /\ CallerRowsFarEnough(p) = {}
          IN  /\ none => proc'[p].pc = "done" /\ resp.status = "not_found"
              /\ near => RejectedWith(proc'[p], "too_close_to_cancel")
              /\ resp.status = "not_found" => none
              /\ resp.reason = "too_close_to_cancel" => near ]_vars

\* C11, reached: of two cancel requests of part_001 handled at one time,
\* with one appointment in the store that starts in less than 60 minutes,
\* the one of its owner was answered 'too_close_to_cancel' and the one of
\* another customer 'not_found'.
C11_BothOutcomesSeen ==
  \E p, q \in Procs :
    /\ proc[p].kind = "cancel" /\ proc[p].variant = "part_001"
    /\ proc[q].kind = "cancel" /\ proc[q].variant = "part_001"
    /\ proc[p].loc.clock = proc[q].loc.clock
    /\ RejectedWith(proc[p], "too_close_to_cancel")
    /\ proc[q].pc = "done" /\ proc[q].resp = Resp(200, "not_found", "no_matching_appointment")
    /\ \E r \in stats : /\ MatchesV3(r, proc[p].data)
                         /\ ~MatchesV3(r, proc[q].data)
                         /\ r.start - proc[p].loc.clock < MinCancelLeadMin
                         /\ r.start >= proc[p].loc.clock

\* ---- C12
\* C12: when the calendar delete of cancel has answered 410 (the event is
\* already gone), the request ends with top-level status 'success' and the
\* stats row of the appointment is purged, already when no dependency call
\* fails.  (As stated by the claim.)
C12_GoneIsSuccess ==
  [][ \A p \in Procs :
        (proc[p].pc = "cx_purge_gone" /\ proc'[p].pc = "done" /\ faults' = 0)
          => /\ proc'[p].resp.status = "success"
             /\ ~ \E r \in stats' : r.appointment_id = proc[p].loc.gcalId ]_vars

\* C12, reached: a cancel whose calendar delete answered 410 has ended; the
\* stats row is purged and the answer is 'already_deleted'.
C12_GoneSeen ==
  \E p \in Procs :
    /\ proc[p].kind = "cancel" /\ proc[p].variant = "part_001"
    /\ proc[p].pc = "done"
    /\ proc[p].resp.status = "already_deleted"
    /\ proc[p].loc.gcalId # Null
    /\ ~ \E ev \in cal[proc[p].data.calendarId] : ev.id = proc[p].loc.gcalId
    /\ ~ \E r \in stats : r.appointment_id = proc[p].loc.gcalId
    /\ faults = 0

\* ---- C13
\* The handlers the claim is about: /testdrive, and book of part_002.
OrderedHandler(pr) ==
  \/ pr.kind = "testdrive"
  \/ pr.kind = "book" /\ pr.variant = "part_002"

\* The request has written what it books: its row of "appointments", its
\* 'booking' row of "stats", or its calendar event.
HasWritten(p) ==
  \/ OwnRow(p)
  \/ OwnEvent(p)
  \/ \E r \in stats : r.id = FreshId(p) /\ r.call_type = "booking"

\* The request is past its first stage, on its way to a write.
PastProbe(pr) ==
  pr.pc \in {"td_pick", "td_upsert", "td_gcal", "td_rollback", "td_attach", "bk_gcal", "bk_stats"}

\* C13: within one booking request the lead-time and the hours check are
\* decided before the freebusy query is issued, and the query is over
\* before a row of the booking is written or an event inserted: a request
\* answered 'too_soon' or 'outside_office_hours' has issued no freebusy
\* query, picked no car and inserted no event; a request with a time that
\* can be read that has issued the query is neither too soon nor outside
\* the hours its handler tests;
\* a request that has written, or is about to, has issued the query.
C13_ChecksThenProbeThenWrites ==
  \A p \in Procs :
    LET pr    == proc[p]
        hours == HoursOf(pr)
        early == RejectedWith(pr, "too_soon") \/ RejectedWith(pr, "outside_office_hours")
        outside ==
          IF pr.kind = "testdrive"
            THEN OutsideHoursFractional(pr.loc.start, pr.loc.end, hours.tz,
                                        hours.officeStart, hours.officeEnd)
            ELSE OutsideHoursWholeHour(pr.loc.start, pr.loc.end, hours.tz,
                                       hours.officeStart, hours.officeEnd)
    IN  OrderedHandler(pr) =>
          /\ early => (~pr.loc.probed /\ pr.loc.carId = Null /\ ~HasWritten(p))
          /\ (pr.loc.probed /\ HasRequired(pr))
               => (pr.loc.start - pr.loc.clock >= MinLeadMin /\ ~outside)
          /\ (HasWritten(p) \/ PastProbe(pr)) => pr.loc.probed

\* C13, reached: a book request that is too soon has been answered
\* 'too_soon' without a freebusy query, with events on both calendars; the
\* 'rejected' row of the log is written.
C13_RejectedUnprobedSeen ==
  \E p \in Procs :
    /\ proc[p].kind = "book" /\ proc[p].variant = "part_002"
    /\ RejectedWith(proc[p], "too_soon")
    /\ ~proc[p].loc.probed
    /\ cal[HoldCal] # {} /\ cal[MainCal] # {}
    /\ \E r \in stats : r.id = FreshId(p) /\ r.call_type = "rejected"

\* ---- C14
\* The hard-blocking calendar the request is handled with.
BlockingOf(pr) ==
  IF pr.kind = "book" /\ pr.variant = "index_v1" THEN EnvBlockingCalendarId
  ELSE OrText(pr.data.blockingCalendarId, pr.data.calendarId)

\* The events of others on the hard-blocking calendar that meet the
\* request's window.
HoldsInWindow(p) ==
  { ev \in Busy(cal, BlockingOf(proc[p]), proc[p].loc.start, proc[p].loc.end) :
      ev.id # FreshId(p) }

\* C14: a booking request whose freebusy query fails is not carried on as
\* if the calendars were free, so no request writes a row or an event of
\* a booking for a window in which the hard-blocking calendar is busy.
\* (As stated by the claim.)
C14_NoBookingOverHold ==
  \A p \in Procs :
    (IsBooking(proc[p]) /\ HasWritten(p)) => HoldsInWindow(p) = {}

\* The same, of the requests whose dependency calls all answered.
C14_NoBookingOverHoldUnlessFailure ==
  \A p \in Procs :
    (IsBooking(proc[p]) /\ HasWritten(p) /\ faults = 0) => HoldsInWindow(p) = {}

\* C14, the case the code does handle: /testdrive of index.js, whose
\* freebusy query failed over a busy blocking calendar, has ended with an
\* error, and nothing is written.
C14_ProbeFailureSeen ==
  \E p \in Procs :
    /\ proc[p].kind = "testdrive" /\ proc[p].variant = "index"
    /\ proc[p].pc = "done"
    /\ proc[p].resp = Resp(500, "error", "server_error")
    /\ proc[p].loc.probed
    /\ faults = 1
    /\ HoldsInWindow(p) # {}
    /\ ~HasWritten(p)

\* ---- C15
\* C15: a booking request (/testdrive, book of part_002) that lacks a
\* required field, or whose bookingTime cannot be read, issues no freebusy
\* query and writes no row and no event, is never left without an answer,
\* and ends with an 'error' answer, already when no dependency call fails.
\* (As stated by the claim.)
C15_InvalidRequestFails ==
  \A p \in Procs :
    LET pr == proc[p]
    IN  (OrderedHandler(pr) /\ ~HasRequired(pr) /\ faults = 0)
          => /\ ~pr.loc.probed
             /\ ~HasWritten(p)
             /\ ~ \E r \in stats : r.id = FreshId(p)
             /\ pr.pc = "done" /\ pr.resp.status = "error"

\* C15, the case the code does handle: /testdrive answers 400
\* 'invalid_booking_time' for a time it cannot read, with nothing asked of
\* the calendars, which hold events, and nothing written.
C15_InvalidTimeSeen ==
  \E p \in Procs :
    /\ proc[p].kind = "testdrive"
    /\ proc[p].data.bookingTime = InvalidTime
    /\ proc[p].pc = "done"
    /\ proc[p].resp = Resp(400, "error", "invalid_booking_time")
    /\ ~proc[p].loc.probed
    /\ ~HasWritten(p)
    /\ cal[MainCal] # {}

\* ---- C16
\* C16: no /action request (book, cancel, findNearest) is left without an
\* answer by a dependency call that throws: the request is answered, and
\* a request ended by the throw is answered 'error'.  (As stated by the
\* claim; "crashed" is a request whose promise was rejected with no
\* answer sent.)
C16_ThrowIsAnswered ==
  \A p \in Procs :
    proc[p].kind \in {"book", "cancel", "findNearest"} => proc[p].pc # "crashed"

\* C16, the case the code does handle: the calendar delete of cancel threw
\* (not 410), the event and the stats row are still there, and the answer
\* is 'error'.
C16_CancelThrowSeen ==
  \E p \in Procs :
    /\ proc[p].kind = "cancel" /\ proc[p].variant = "part_001"
    /\ proc[p].pc = "done"
    /\ proc[p].resp = Resp(200, "error", "failed_to_cancel")
    /\ faults = 1
    /\ \E ev \in cal[proc[p].data.calendarId] : ev.id = proc[p].loc.gcalId
    /\ \E r \in stats : r.appointment_id = proc[p].loc.gcalId

\* ---- C17
\* The request has ended: answered, or left without an answer.
Ended(pr) == pr.pc \in {"done", "crashed", "unanswered"}

\* The length of the window the request is handled with.
DurationOf(pr) ==
  IF pr.kind = "testdrive" THEN TestDriveDurationMin
  ELSE IF pr.variant = "index_v1" THEN V1DurationMin
  ELSE IF pr.variant = "index_v2"
    THEN (IF pr.data.durationMin = Absent \/ pr.data.durationMin = 0
            THEN V2DurationMin ELSE pr.data.durationMin)
  ELSE BookDuration(pr.data)

\* The events of others on the request's calendar that meet its window.
OthersInWindow(p) ==
  { ev \in Busy(cal, proc[p].data.calendarId, proc[p].loc.start, proc[p].loc.end) :
      ev.id # FreshId(p) }

\* Every check of the request passes: the start is 30 minutes ahead, the
\* window lies in the office hours, the blocking calendar is clear, the
\* count on the calendar is below the capacity, the model (if any) is in
\* the inventory.
AllChecksPass(p) ==
  LET pr == proc[p]
      h  == HoursOf(pr)
  IN  /\ HasRequired(pr)
      /\ pr.loc.start - pr.loc.clock >= MinLeadMin
      /\ MinuteOfDay(pr.loc.start, h.tz) >= h.officeStart
      /\ MinuteOfDay(pr.loc.start, h.tz) + DurationOf(pr) <= h.officeEnd
      /\ HoldsInWindow(p) = {}
      /\ Cardinality(OthersInWindow(p)) < CapacityOf(pr)
      /\ pr.data.model # NoText => ModelExists(pr.data.business_id, pr.data.model)

\* The request has put exactly one event on its calendar, over
\* [start, start + duration].
OneEventBooked(p) ==
  LET pr == proc[p]
  IN  /\ pr.loc.end = pr.loc.start + DurationOf(pr)
      /\ \A c \in CalIds :
           { ev \in cal[c] : ev.id = FreshId(p) }
             = IF c = pr.data.calendarId
                 THEN {[id |-> FreshId(p), start |-> pr.loc.start, end |-> pr.loc.end]}
                 ELSE {}

\* C17: a booking request (/testdrive, book of index.js line 381) of which
\* every check passes and every dependency call answers ends 'success' with
\* exactly one event over [start, start + duration]; and one that is far
\* enough ahead but starts before officeStart ends 'rejected' /
\* 'outside_office_hours'.  (As stated by the claim.)
C17_AcceptedWhenChecksPass ==
  \A p \in Procs :
    LET pr == proc[p]
        h  == HoursOf(pr)
    IN  (IsBooking(pr) /\ Ended(pr) /\ faults = 0)
          => /\ AllChecksPass(p) => (Succeeds(pr) /\ OneEventBooked(p))
             /\ ( /\ HasRequired(pr)
                  /\ pr.loc.start - pr.loc.clock >= MinLeadMin
                  /\ MinuteOfDay(pr.loc.start, h.tz) < h.officeStart )
                  => RejectedWith(pr, "outside_office_hours")

\* The same, of /testdrive alone.
C17_TestdriveAcceptedWhenChecksPass ==
  \A p \in Procs :
    LET pr == proc[p]
        h  == HoursOf(pr)
    IN  (pr.kind = "testdrive" /\ Ended(pr) /\ faults = 0)
          => /\ AllChecksPass(p) => (Succeeds(pr) /\ OneEventBooked(p))
             /\ ( /\ HasRequired(pr)
                  /\ pr.loc.start - pr.loc.clock >= MinLeadMin
                  /\ MinuteOfDay(pr.loc.start, h.tz) < h.officeStart )
                  => RejectedWith(pr, "outside_office_hours")

\* C17, the case the code does handle: /testdrive for 11:00 with two
\* events on the calendar and the default capacity of 3 has ended
\* 'success' with its one event 11:00-11:30 and its row.
C17_AcceptedSeen ==
  \E p \in Procs :
    /\ proc[p].kind = "testdrive"
    /\ AllChecksPass(p)
    /\ Cardinality(OthersInWindow(p)) = 2
    /\ proc[p].data.maxOverlaps = Absent
    /\ Succeeds(proc[p])
    /\ OneEventBooked(p)
    /\ OwnRow(p)
    /\ faults = 0

\* ---- C18
\* No hard hold meets the request's window: the blocking calendar the
\* request names is clear; a request that names none has no hard hold.
NoHardHold(p) ==
  LET pr == proc[p]
  IN  pr.data.blockingCalendarId # NoCal
        => Busy(cal, pr.data.blockingCalendarId, pr.loc.start, pr.loc.end) = {}

\* The checks of the request other than those of the calendars pass.
OtherChecksPass(p) ==
  LET pr == proc[p]
      h  == HoursOf(pr)
  IN  /\ HasRequired(pr)
      /\ pr.loc.start - pr.loc.clock >= MinLeadMin
      /\ MinuteOfDay(pr.loc.start, h.tz) >= h.officeStart
      /\ MinuteOfDay(pr.loc.start, h.tz) + DurationOf(pr) <= h.officeEnd
      /\ pr.data.model # NoText => ModelExists(pr.data.business_id, pr.data.model)

\* C18: a booking request (/testdrive, book of part_002) with a capacity
\* N >= 2 whose window already holds k events on its calendar, 1 <= k < N,
\* with no hard hold, is accepted when its other checks pass and every
\* dependency call answers, also when it names no blocking calendar.  (As
\* stated by the claim.)
C18_BelowCapacityAccepted ==
  \A p \in Procs :
    LET pr == proc[p]
        k  == Cardinality(OthersInWindow(p))
    IN  ( /\ OrderedHandler(pr) /\ Ended(pr) /\ faults = 0
          /\ OtherChecksPass(p)
          /\ CapacityOf(pr) >= 2 /\ 1 <= k /\ k < CapacityOf(pr)
          /\ NoHardHold(p) )
          => Succeeds(pr)

\* The same, of the requests that name a blocking calendar.
C18_BelowCapacityAcceptedBesideHolds ==
  \A p \in Procs :
    LET pr == proc[p]
        k  == Cardinality(OthersInWindow(p))
    IN  ( /\ OrderedHandler(pr) /\ Ended(pr) /\ faults = 0
          /\ OtherChecksPass(p)
          /\ CapacityOf(pr) >= 2 /\ 1 <= k /\ k < CapacityOf(pr)
          /\ NoHardHold(p) /\ pr.data.blockingCalendarId # NoCal )
          => Succeeds(pr)

\* C18, the case the code does handle: book with a blocking calendar of
\* its own, which is clear, one event in the window on its calendar and
\* the default capacity of 5 has ended 'success', and two events are there.
C18_SecondBookingSeen ==
  \E p \in Procs :
    /\ proc[p].kind = "book" /\ proc[p].variant = "part_002"
    /\ proc[p].data.blockingCalendarId = HoldCal
    /\ proc[p].data.maxOverlaps = Absent
    /\ Cardinality(OthersInWindow(p)) = 1
    /\ NoHardHold(p)
    /\ Succeeds(proc[p])
    /\ OwnEvent(p)
    /\ faults = 0


\* ------------------------------------------------------------------- C19

\* The request created an event that is on its calendar.
EventCreated(p) ==
  /\ proc[p].loc.gcalId # Absent
  /\ \E e \in cal[proc[p].data.calendarId] : e.id = proc[p].loc.gcalId

\* The store has a record linked to the event of the request: the
\* appointment with its gcal_event_id (testdrive), the booking row with its
\* appointment_id (book).
LinkedRecord(p) ==
  \/ /\ proc[p].kind = "testdrive"
     /\ \E r \in appts : r.gcal_event_id = proc[p].loc.gcalId
  \/ /\ proc[p].kind = "book"
     /\ \E r \in stats : r.call_type = "booking" /\ r.appointment_id = proc[p].loc.gcalId

\* C19: a request that created a calendar event and whose following store
\* write failed never answers plain success while the store has no record
\* linked to the event: an answered request with an event on the calendar
\* and status 'success' has its linked record (/testdrive of part_001 and
\* index.js, book of part_002).
C19_NoSuccessWithoutRecord ==
  \A p \in Procs :
    ( /\ proc[p].pc = "done"
      /\ \/ proc[p].kind = "testdrive"
         \/ proc[p].kind = "book" /\ proc[p].variant = "part_002"
      /\ EventCreated(p)
      /\ proc[p].resp.status = "success" )
    => LinkedRecord(p)

\* C19 without a failed dependency call: the success answer comes with the
\* linked record.
C19_NoSuccessWithoutRecordUnlessFailure ==
  \A p \in Procs :
    ( /\ proc[p].pc = "done"
      /\ \/ proc[p].kind = "testdrive"
         \/ proc[p].kind = "book" /\ proc[p].variant = "part_002"
      /\ EventCreated(p)
      /\ proc[p].resp.status = "success"
      /\ faults = 0 )
    => LinkedRecord(p)

\* C19's case is reached: a test drive answered after its event was created
\* and exactly one dependency call, the attaching update, failed, so that
\* its appointment is in the store without the event's id.
C19_AttachFailureSeen ==
  \E p \in Procs :
    /\ proc[p].pc = "done"
    /\ proc[p].kind = "testdrive"
    /\ EventCreated(p)
    /\ faults = 1
    /\ \E r \in appts : r.id = proc[p].loc.apptId /\ r.gcal_event_id # proc[p].loc.gcalId


\* ------------------------------------------------------------------- C20

\* The rejection conditions as the handler evaluates them, on the window
\* and the clock it handled the request with and the calendars as they are.
TooSoonHolds(pr) == pr.loc.start - pr.loc.clock < MinLeadMin

OutsideHolds(pr) ==
  LET h == HoursOf(pr)
  IN  IF pr.kind = "testdrive"
        THEN OutsideHoursFractional(pr.loc.start, pr.loc.end, h.tz, h.officeStart, h.officeEnd)
        ELSE OutsideHoursWholeHour(pr.loc.start, pr.loc.end, h.tz, h.officeStart, h.officeEnd)

\* The events counted are those of others: the request's own event, once
\* written, was not there when it was handled.
BlockedHolds(p) == HoldsInWindow(p) # {}

FullHolds(p) == Cardinality(OthersInWindow(p)) >= CapacityOf(proc[p])

\* How many of the four conditions hold.
ConditionsHolding(p) ==
  Cardinality({ i \in 1..4 : \/ i = 1 /\ TooSoonHolds(proc[p])
                             \/ i = 2 /\ OutsideHolds(proc[p])
                             \/ i = 3 /\ BlockedHolds(p)
                             \/ i = 4 /\ FullHolds(p) })

\* The first of the conditions that hold, in the order too_soon,
\* outside_office_hours, slot_blocked, slot_full.
FirstInOrder(p) ==
  IF TooSoonHolds(proc[p]) THEN "too_soon"
  ELSE IF OutsideHolds(proc[p]) THEN "outside_office_hours"
  ELSE IF BlockedHolds(p) THEN "slot_blocked"
  ELSE "slot_full"

\* C20: when several rejection conditions hold for one booking request
\* (/testdrive of part_001, book of part_002) that has its required fields
\* and whose dependency calls answered, the request is rejected with the
\* first of them in the order too_soon, outside_office_hours, slot_blocked,
\* slot_full.
C20_FirstReasonReported ==
  \A p \in Procs :
    ( /\ Ended(proc[p])
      /\ OrderedHandler(proc[p])
      /\ HasRequired(proc[p])
      /\ faults = 0
      /\ ConditionsHolding(p) >= 2 )
    => RejectedWith(proc[p], FirstInOrder(p))

\* C20's first case is reached: a request both too soon and outside the
\* office hours has been answered with 'too_soon'.
C20_TooSoonAndOutsideSeen ==
  \E p \in Procs :
    /\ OrderedHandler(proc[p])
    /\ HasRequired(proc[p])
    /\ TooSoonHolds(proc[p])
    /\ OutsideHolds(proc[p])
    /\ RejectedWith(proc[p], "too_soon")

\* C20's second case is reached: a request whose blocking calendar is busy
\* and whose calendar is at capacity has been answered with 'slot_blocked'.
C20_BlockedAndFullSeen ==
  \E p \in Procs :
    /\ OrderedHandler(proc[p])
    /\ proc[p].data.blockingCalendarId = HoldCal
    /\ ~TooSoonHolds(proc[p])
    /\ ~OutsideHolds(proc[p])
    /\ BlockedHolds(p)
    /\ FullHolds(p)
    /\ RejectedWith(proc[p], "slot_blocked")


\* ------------------------------------------------------------------- C21

\* The candidates: the 'booking' records of the business that start at or
\* after now (fewer than the query's limit in every state of the model).
CandidateRows(bizId) ==
  { r \in stats : r.business_id = bizId /\ r.call_type = "booking" /\ r.start >= now }

\* The stored name is the supplied one up to letter case, and the stored
\* email (up to letter case) or the stored phone is the supplied one.
IsCallersRow(r, d) ==
  /\ ToLowerCase(r.name) = ToLowerCase(d.name)
  /\ \/ d.email # NoText /\ ToLowerCase(r.email) = ToLowerCase(d.email)
     \/ d.phone # NoText /\ r.phone = d.phone

\* The matches that start at least 60 minutes from now.
CancellableRows(d) ==
  { r \in CandidateRows(d.business_id) :
      IsCallersRow(r, d) /\ r.start - now >= MinCancelLeadMin }

\* Events of calendar c and records of the store that a step removes.
EventsRemoved(c) == cal[c] \ cal'[c]

RowsRemoved == stats \ stats'

\* C21: cancel of part_001, when its query answers, goes on to cancel an
\* appointment exactly when some candidate record is the caller's (name, and
\* email or phone) and starts at least 60 minutes from now, and the
\* appointment it picks is the earliest-starting of those; the request then
\* removes no event and no record but those of the appointment it picked.
C21_EarliestCancellableMatch ==
  [][ \A p \in Procs :
        /\ (CancelTaken(p) /\ faults' = faults) =>
             LET d    == proc'[p].data
                 rows == CancellableRows(d)
             IN  /\ (proc'[p].pc = "cx_delete") <=> (rows # {})
                 /\ proc'[p].pc = "cx_delete" =>
                      \E r \in rows : /\ r.appointment_id = proc'[p].loc.gcalId
                                      /\ \A q \in rows : r.start <= q.start
                 /\ cal' = cal /\ stats' = stats
        /\ ( /\ proc[p].kind = "cancel" /\ proc[p].variant = "part_001"
             /\ proc'[p] # proc[p] ) =>
             /\ \A c \in CalIds :
                  /\ Cardinality(EventsRemoved(c)) <= 1
                  /\ \A ev \in EventsRemoved(c) :
                       ev.id = proc[p].loc.gcalId /\ c = proc[p].data.calendarId
             /\ \A r \in RowsRemoved : r.appointment_id = proc[p].loc.gcalId ]_vars

\* C21's case is reached: a cancel of part_001 has ended with success while
\* the store still holds an earlier appointment of the caller (too close
\* when the request came) and an appointment of another customer of the
\* same name, and the appointment cancelled was a later one of the caller.
C21_LaterMatchCancelledSeen ==
  \E p \in Procs :
    /\ proc[p].kind = "cancel" /\ proc[p].variant = "part_001"
    /\ proc[p].pc = "done" /\ proc[p].resp.status = "success"
    /\ \E near, other \in stats :
         /\ IsCallersRow(near, proc[p].data)
         /\ near.start < proc[p].loc.start
         /\ near.start - proc[p].loc.clock < MinCancelLeadMin
         /\ ~IsCallersRow(other, proc[p].data)
         /\ ToLowerCase(other.name) = ToLowerCase(proc[p].data.name)
         /\ other.start < proc[p].loc.start
    /\ ~ \E r \in stats : r.appointment_id = proc[p].loc.gcalId
    /\ ~ \E ev \in cal[MainCal] : ev.id = proc[p].loc.gcalId


\* ------------------------------------------------------------------- C22

\* The active units of the business of the model the request names.
UnitsOfModel(pr) == CarCandidates(pr.data.business_id, pr.data.model, NoText, FALSE)

\* The units among them with an appointment that overlaps the request's window.
UnitsBooked(pr) ==
  { c \in UnitsOfModel(pr) : ~CarFree(appts, c.id, pr.loc.start, pr.loc.end) }

\* C22: a /testdrive request that names a model fails for lack of a unit
\* ('no_unit_available', or 'overlap' from the store's constraint) only
\* when every active unit of the model is booked for an overlapping
\* window.  (As stated by the claim, of requests with no trim requirement
\* and no failed dependency call.)
C22_FailsOnlyWhenAllBooked ==
  \A p \in Procs :
    ( /\ proc[p].kind = "testdrive"
      /\ proc[p].data.model # NoText
      /\ ~proc[p].data.requireExactTrim
      /\ faults = 0
      /\ \/ RejectedWith(proc[p], "no_unit_available")
         \/ RejectedWith(proc[p], "overlap") )
    => UnitsBooked(proc[p]) = UnitsOfModel(proc[p])

\* C22's case is reached: a request was allocated a unit that a concurrent
\* request took before its insert, and the insert hit the overlap constraint.
C22_UnitTakenBetweenSeen ==
  \E p, q \in Procs :
    /\ p # q
    /\ proc[p].kind = "testdrive" /\ proc[q].kind = "testdrive"
    /\ RejectedWith(proc[p], "overlap")
    /\ proc[p].loc.carId # Null
    /\ \E r \in appts : /\ r.id = proc[q].loc.apptId
                         /\ r.car_unit_id = proc[p].loc.carId
                         /\ Overlaps(r.starts_at, r.ends_at, proc[p].loc.start, proc[p].loc.end)

\* ------------------------------------------------------------------- C23

\* The active units of the model that have the trim the request asks for.
UnitsOfTrim(pr) ==
  { c \in UnitsOfModel(pr) : ToLowerCase(c.trim) = ToLowerCase(pr.data.trim) }

\* C23: with an exact-trim requirement, 'exact_trim_unavailable' is
\* answered only when the business has no active unit of the model with
\* that trim; when such units exist and all are booked for the window the
\* answer is 'no_unit_available'; 'unknown_model' is answered only when
\* the model has no active unit.  (As stated by the claim.)
C23_TrimReasonsApart ==
  \A p \in Procs :
    ( /\ proc[p].kind = "testdrive"
      /\ proc[p].pc = "done"
      /\ proc[p].data.requireExactTrim /\ proc[p].data.trim # NoText
      /\ faults = 0 )
    => /\ RejectedWith(proc[p], "exact_trim_unavailable") => UnitsOfTrim(proc[p]) = {}
       /\ RejectedWith(proc[p], "unknown_model") => UnitsOfModel(proc[p]) = {}
       /\ ( /\ proc[p].loc.probed
            /\ UnitsOfTrim(proc[p]) # {}
            /\ proc[p].loc.carId = Null
            /\ proc[p].resp.status = "rejected" )
          => proc[p].resp.reason = "no_unit_available"

\* The part of C23 that the handler keeps: 'exact_trim_unavailable' and
\* 'unknown_model' are answered when no unit has the trim / the model.
C23_NoSuchTrimOrModel ==
  \A p \in Procs :
    ( /\ proc[p].kind = "testdrive"
      /\ proc[p].pc = "done"
      /\ proc[p].loc.probed
      /\ proc[p].data.requireExactTrim /\ proc[p].data.trim # NoText
      /\ faults = 0 )
    => /\ UnitsOfModel(proc[p]) = {} => RejectedWith(proc[p], "unknown_model")
       /\ (UnitsOfModel(proc[p]) # {} /\ UnitsOfTrim(proc[p]) = {})
            => RejectedWith(proc[p], "exact_trim_unavailable")
       /\ RejectedWith(proc[p], "unknown_model") => UnitsOfModel(proc[p]) = {}

\* C23's case is reached: a request that requires a trim was refused a unit
\* while the only unit of that trim is booked for its window by another
\* request.
C23_TrimBookedSeen ==
  \E p, q \in Procs :
    /\ p # q
    /\ proc[p].kind = "testdrive" /\ proc[p].pc = "done"
    /\ proc[p].data.requireExactTrim /\ proc[p].data.trim # NoText
    /\ proc[p].resp.status = "rejected"
    /\ proc[p].loc.carId = Null
    /\ UnitsOfTrim(proc[p]) # {}
    /\ \A c \in UnitsOfTrim(proc[p]) :
         \E r \in appts : /\ r.id = proc[q].loc.apptId
                           /\ r.car_unit_id = c.id
                           /\ Overlaps(r.starts_at, r.ends_at, proc[p].loc.start, proc[p].loc.end)


\* ------------------------------------------------------------------- C24

\* The unit exists, belongs to the business and is active.
ValidUnit(carId, bizId) ==
  \E c \in Cars : c.id = carId /\ c.business_id = bizId /\ c.is_active

\* The event the request created is on its calendar.
EventOf(p) ==
  \E ev \in cal[proc[p].data.calendarId] : ev.id = FreshId(p)

\* C24: an appointment that carries a car_id supplied by a /testdrive
\* request (part_002) is persisted only if that unit exists, belongs to the
\* requesting business and is active; a request with any other car_id
\* does not succeed and creates neither an appointment nor a calendar
\* event.  (As stated by the claim; a rejection for another reason counts
\* as the failure.)
C24_OnlyValidUnitPersisted ==
  /\ \A r \in appts :
       r.car_unit_id # Null => ValidUnit(r.car_unit_id, r.business_id)
  /\ \A p \in Procs :
       ( /\ proc[p].kind = "testdrive" /\ proc[p].variant = "part_002"
         /\ HasRequired(proc[p])
         /\ proc[p].data.car_id # Null
         /\ ~ValidUnit(proc[p].data.car_id, proc[p].data.business_id) )
       => /\ ~EventOf(p)
          /\ ~ \E r \in appts : r.id = FreshId(p)
          /\ proc[p].pc = "done" => proc[p].resp.status # "success"

\* C24's case is reached: a request that supplied the id of an active
\* unit of its business has ended with its appointment, which carries the
\* id, in the store.
C24_ExplicitUnitSeen ==
  \E p \in Procs :
    /\ proc[p].kind = "testdrive" /\ proc[p].variant = "part_002"
    /\ proc[p].pc = "done" /\ proc[p].resp.status = "success"
    /\ proc[p].data.car_id # Null
    /\ ValidUnit(proc[p].data.car_id, proc[p].data.business_id)
    /\ \E r \in appts : r.id = proc[p].loc.apptId /\ r.car_unit_id = proc[p].data.car_id


\* ------------------------------------------------------------------- C25

\* findNearest of part_001 has answered with a slot.
NearestFound(pr) ==
  /\ pr.kind = "findNearest" /\ pr.variant = "part_001"
  /\ pr.pc = "done" /\ pr.resp.status = "success"

\* C25: in findNearest the requested start (distance 0) is looked at once,
\* the 'before' candidate of delta = 0 being skipped: no request is at the
\* second candidate of distance 0, and a slot returned at distance 0 is
\* not tagged 'before'.  (As stated by the claim.)
C25_RequestedStartOnce ==
  \A p \in Procs :
    (proc[p].kind = "findNearest" /\ proc[p].variant = "part_001") =>
      /\ NearestFound(proc[p]) /\ proc[p].loc.k = 0 => proc[p].resp.reason # "before"
      /\ proc[p].pc = "fn_probe" /\ proc[p].loc.k = 0 => proc[p].loc.dir = -1

\* The rest of C25: at every distance the 'before' candidate comes first,
\* and the tag returned is the direction of the candidate accepted.
C25_TagIsDirection ==
  \A p \in Procs :
    NearestFound(proc[p]) =>
      LET pr == proc[p]
      IN  /\ pr.resp.reason = (IF pr.loc.dir > 0 THEN "after" ELSE "before")
          /\ pr.loc.start = CandidateStart(pr.variant, pr.data, pr.loc.k, pr.loc.dir)
          /\ pr.loc.dir > 0 =>
               ~ ( /\ CandidateInHours(pr.variant, pr.data, pr.loc.k, -1)
                   /\ CandidateOpen(pr.variant, pr.data, cal, pr.loc.k, -1) )

\* C25's case is reached: the requested slot itself was acceptable and has
\* been returned, at distance 0.
C25_RequestedSlotReturnedSeen ==
  \E p \in Procs :
    /\ NearestFound(proc[p])
    /\ proc[p].loc.k = 0
    /\ proc[p].loc.start = CandidateStart(proc[p].variant, proc[p].data, 0, 1)
    /\ CandidateInHours(proc[p].variant, proc[p].data, 0, 1)
    /\ CandidateOpen(proc[p].variant, proc[p].data, cal, 0, 1)


\* ------------------------------------------------------------------- C26

\* The length the claim gives the window: 30 minutes in /testdrive, in
\* book the caller's durationMin when it is a positive integer and the
\* default otherwise.
ClaimedDuration(pr) ==
  IF pr.kind = "testdrive" THEN 30
  ELSE IF pr.data.durationMin > 0 THEN pr.data.durationMin
  ELSE BookDurationMin

\* The request has asked the calendars about its window.
HasWindow(pr) ==
  /\ IsBooking(pr)
  /\ pr.variant \in {"part_001", "part_002"}
  /\ HasRequired(pr)
  /\ pr.loc.probed

\* C26: every window a booking works with (/testdrive of part_001 and of
\* part_002, book of part_002; requests with a time that can be read) is
\* end = start + duration with duration > 0, the duration being 30 minutes
\* in /testdrive whatever the caller sends, and in book the caller's
\* durationMin if positive, else the default.  (As stated by the claim.)
C26_WindowIsStartPlusDuration ==
  \A p \in Procs :
    HasWindow(proc[p]) =>
      /\ proc[p].loc.end = proc[p].loc.start + ClaimedDuration(proc[p])
      /\ ClaimedDuration(proc[p]) > 0

\* The same without /testdrive of part_002.
C26_WindowIsStartPlusDurationElsewhere ==
  \A p \in Procs :
    (HasWindow(proc[p]) /\ ~(proc[p].kind = "testdrive" /\ proc[p].variant = "part_002")) =>
      /\ proc[p].loc.end = proc[p].loc.start + ClaimedDuration(proc[p])
      /\ ClaimedDuration(proc[p]) > 0

\* C26's case is reached: a /testdrive request that sent durationMin 45
\* has its event on the calendar.
C26_CallerDurationIgnoredSeen ==
  \E p \in Procs :
    /\ proc[p].kind = "testdrive"
    /\ proc[p].data.durationMin = 45
    /\ \E ev \in cal[proc[p].data.calendarId] :
         /\ ev.id = FreshId(p)
         /\ ev.end - ev.start # 45


\* ------------------------------------------------------------------- C27

\* The place of a candidate in the order of the loop: 2 per distance,
\* 'before' first.
CandidateRank(loc) == 2 * loc.k + (IF loc.dir > 0 THEN 1 ELSE 0)

InNearestLoop(p) == proc[p].kind = "findNearest" /\ proc[p].pc = "fn_probe"

\* C27: findNearest always terminates.  A request in the loop is at one of
\* the 2 x 33 candidates (delta = 0, 15, ..., 480 minutes); every step of
\* it looks at one candidate (one blocking-calendar probe and one listing
\* at most) and then either ends the request or goes on to a later
\* candidate, and it ends at the first candidate accepted; a returned start
\* is the requested start plus or minus a multiple of 15 minutes of at most
\* 8 hours; and every request in the loop comes to its end.
C27_NearestTerminates ==
  /\ [](\A p \in 1..NumProcs :
          /\ InNearestLoop(p) => proc[p].loc.k * 15 <= 8 * 60
          /\ (proc[p].kind = "findNearest" /\ proc[p].pc = "done"
                /\ proc[p].resp.status = "success") =>
               \E n \in 0..32 : \E sgn \in {-1, 1} :
                 proc[p].loc.start =
                   FromLocal(proc[p].data.bookingTime,
                             NearestParams(proc[p].variant, proc[p].data).tz) + sgn * n * 15)
  /\ [][ \A p \in 1..NumProcs :
           (InNearestLoop(p) /\ proc'[p] # proc[p]) =>
             \/ /\ InNearestLoop(p)'
                /\ CandidateRank(proc'[p].loc) > CandidateRank(proc[p].loc)
                /\ ~ ( /\ faults' = faults
                       /\ CandidateInHours(proc[p].variant, proc[p].data,
                                           proc[p].loc.k, proc[p].loc.dir)
                       /\ CandidateOpen(proc[p].variant, proc[p].data, cal,
                                        proc[p].loc.k, proc[p].loc.dir) )
             \/ /\ Ended(proc'[p])
                /\ proc'[p].loc.k = proc[p].loc.k
                /\ proc'[p].loc.dir = proc[p].loc.dir ]_vars
  /\ \A p \in 1..NumProcs : InNearestLoop(p) ~> Ended(proc[p])

\* C27's case is reached: a request has gone through all 66 candidates and
\* ended without a slot.
C27_AllCandidatesSeen ==
  \E p \in Procs :
    /\ proc[p].kind = "findNearest"
    /\ proc[p].pc = "done" /\ proc[p].resp.status = "not_found"
    /\ CandidateRank(proc[p].loc) = 65


\* ------------------------------------------------------------------- C28

\* The events on calendar c that /testdrive requests of the run have
\* created (the others were there before, or are book's) and that meet the
\* window [from, to).
CreatedInWindow(c, from, to) ==
  { ev \in Busy(cal, c, from, to) :
      ev.id \in Procs /\ proc[ev.id].kind = "testdrive" }

\* C28: whatever the interleaving of booking requests on one calendar, the
\* events they have created that overlap the window of any of them are
\* never more than the maxOverlaps that request was checked against.
\* (As stated by the claim, of /testdrive requests, whose handler compares
\* the count with maxOverlaps, in runs with no failed dependency call.)
C28_CapacityKept ==
  \A p \in Procs :
    (proc[p].kind = "testdrive" /\ proc[p].loc.probed /\ faults = 0) =>
      Cardinality(CreatedInWindow(proc[p].data.calendarId,
                                  proc[p].loc.start, proc[p].loc.end))
        <= CapacityOf(proc[p])

\* C28's case is reached: two /testdrive requests for one calendar and one
\* window are in flight together, each past a freebusy answer that counted
\* no event of the other.
C28_BothPastProbeSeen ==
  \E p, q \in Procs :
    /\ p # q
    /\ proc[p].kind = "testdrive" /\ proc[q].kind = "testdrive"
    /\ proc[p].pc \in {"td_pick", "td_upsert", "td_gcal"}
    /\ proc[q].pc \in {"td_pick", "td_upsert", "td_gcal"}
    /\ proc[p].data.calendarId = proc[q].data.calendarId
    /\ Overlaps(proc[p].loc.start, proc[p].loc.end, proc[q].loc.start, proc[q].loc.end)
    /\ proc[p].loc.mainBusy = proc[q].loc.mainBusy
    /\ CreatedInWindow(proc[p].data.calendarId, proc[p].loc.start, proc[p].loc.end) = {}


\* ------------------------------------------------------------------- C29

\* C29: every request (/action book of index.js line 381, /testdrive) gets
\* its one response on every path: a request whose handler has run to its
\* end, by a return or by a throw, has been answered.  (As stated by the
\* claim.)
C29_EveryEndIsAnswered ==
  \A p \in Procs :
    Ended(proc[p]) => (proc[p].pc = "done" /\ proc[p].resp # NoResp)

\* The same, of /testdrive alone.
C29_TestdriveEndIsAnswered ==
  \A p \in Procs :
    (Ended(proc[p]) /\ proc[p].kind = "testdrive")
      => (proc[p].pc = "done" /\ proc[p].resp # NoResp)

\* C29's case is reached: a request on a dependency-failure path (the
\* calendar insert of /testdrive threw) has been answered.
C29_FailurePathAnsweredSeen ==
  \E p \in Procs :
    /\ proc[p].kind = "testdrive"
    /\ proc[p].pc = "done"
    /\ proc[p].resp = Resp(502, "error", "calendar_insert_failed")
    /\ faults > 0


\* ------------------------------------------------------------------- C30

\* C30: the rollback of /testdrive deletes only a row the failing request
\* made itself: when a request that repeats an earlier, successfully
\* answered request (same idempotency key) meets a calendar-insert failure
\* and is answered 502, the earlier request's row is still in
\* "appointments" and still carries the earlier request's gcal_event_id.
\* The failed calendar insert is the only dependency failure.  (As stated
\* by the claim.)
C30_RollbackSparesEarlierRow ==
  \A q \in Procs :
    LET pr    == proc[q]
        first == proc[pr.loc.resendOf]
    IN  ( /\ pr.kind = "testdrive" /\ pr.pc = "done"
          /\ pr.loc.resendOf # Null
          /\ pr.resp = Resp(502, "error", "calendar_insert_failed")
          /\ first.pc = "done" /\ first.resp.code = 201
          /\ faults = 1 )
          => \E r \in appts : /\ r.id = first.loc.apptId
                              /\ r.gcal_event_id = first.loc.gcalId

\* C30's case is reached: a repeat of a successfully answered request was
\* given the earlier request's row by the upsert, its calendar insert
\* failed, and it has been answered 502 after the rollback.
C30_ResendRolledBackSeen ==
  \E q \in Procs :
    LET pr    == proc[q]
        first == proc[pr.loc.resendOf]
    IN  /\ pr.kind = "testdrive" /\ pr.pc = "done"
        /\ pr.loc.resendOf # Null
        /\ pr.resp = Resp(502, "error", "calendar_insert_failed")
        /\ first.pc = "done" /\ first.resp.code = 201
        /\ pr.loc.apptId = first.loc.apptId
        /\ faults = 1


\* ------------------------------------------------------------------- C31

\* Request p is book of the slot findNearest gave to request q, with the
\* same fields, made at the same clock.
BooksSlotOf(p, q) ==
  /\ proc[p].kind = "book"
  /\ proc[q].kind = "findNearest" /\ proc[q].pc = "done"
  /\ proc[q].resp.status = "success"
  /\ proc[p].data = BookOfSlot(q)
  /\ proc[p].loc.clock = proc[q].loc.clock

\* C31: a slot returned by findNearest is bookable: book of the returned
\* start, with the same zone, hours, duration, capacity and calendars and
\* the calendars as they were, is not rejected; no dependency call fails.
\* (As stated by the claim.)
C31_ReturnedSlotBookable ==
  \A p \in Procs : \A q \in Procs :
    (BooksSlotOf(p, q) /\ Ended(proc[p]) /\ faults = 0)
      => proc[p].resp.status # "rejected"

\* The part of C31 that holds: book of a returned slot is never rejected
\* for the office hours, a busy blocking calendar or a full calendar.
C31_ReturnedSlotPassesHoursAndCalendars ==
  \A p \in Procs : \A q \in Procs :
    (BooksSlotOf(p, q) /\ Ended(proc[p]) /\ faults = 0)
      => proc[p].resp.reason \notin {"outside_office_hours", "slot_blocked", "slot_full"}

\* C31's case is reached: a slot was returned, book was called with it and
\* booked it.
C31_ReturnedSlotBookedSeen ==
  \E p \in Procs : \E q \in Procs :
    /\ BooksSlotOf(p, q)
    /\ proc[p].pc = "done"
    /\ proc[p].resp.status = "success"
    /\ proc[q].loc.k > 0
    /\ faults = 0


\* ------------------------------------------------------------------- C32

\* The request was turned away: status 'rejected', or a validation error.
TurnedAway(pr) ==
  /\ pr.kind = "testdrive"
  /\ pr.pc = "done"
  /\ \/ pr.resp.status = "rejected"
     \/ pr.resp.reason \in {"missing_fields", "invalid_booking_time"}

\* C32: a /testdrive request that ends 'rejected' (too_soon,
\* outside_office_hours, slot_blocked, slot_full, unknown_model,
\* exact_trim_unavailable, no_unit_available, overlap) or with a validation
\* error leaves "appointments" and the calendars as they were: the step
\* that turns it away changes neither, only a step that hands its request
\* a row changes either, and a request that was turned away was never
\* handed a row or an event.
C32_TurnedAwayLeavesNoTrace ==
  /\ [] \A p \in Procs :
          TurnedAway(proc[p])
            => /\ proc[p].loc.apptId = Null /\ proc[p].loc.gcalId = Null
               /\ ~ \E ev \in cal[MainCal] \cup cal[HoldCal] : ev.id = FreshId(p)
               /\ ~ \E r \in appts : r.id = FreshId(p)
  /\ [][ \A p \in Procs :
           (proc[p]' # proc[p] /\ proc[p]'.kind = "testdrive")
             => /\ TurnedAway(proc[p]') => (appts' = appts /\ cal' = cal)
                /\ (appts' # appts \/ cal' # cal) => proc[p]'.loc.apptId # Null ]_vars

\* C32's case is reached: a request was turned away with 'overlap' by the
\* store while the row of another request is in "appointments".
C32_OverlapTurnedAwaySeen ==
  \E p \in Procs :
    /\ TurnedAway(proc[p])
    /\ proc[p].resp.reason = "overlap"
    /\ proc[p].loc.carId # Null
    /\ \E r \in appts : r.id # FreshId(p)


\* ------------------------------------------------------------------- C33

\* The upcoming 'booking' records of the business that are the caller's,
\* as request p is taken.
CallersUpcoming(p) ==
  { r \in CandidateRows(proc'[p].data.business_id) : IsCallersRow(r, proc'[p].data) }

\* C33: cancel answers 'not_found' only when the business has no upcoming
\* 'booking' record of the caller (name, and email or phone): when there is
\* one, however many other upcoming bookings of the business start before
\* it, and the query of the store does not fail, the request is not
\* answered 'not_found'.  (As stated by the claim.)
C33_NotFoundOnlyWithoutMatch ==
  [][ \A p \in Procs :
        (CancelTaken(p) /\ faults' = faults /\ CallersUpcoming(p) # {})
          => proc'[p].resp.status # "not_found" ]_vars

\* The same where fewer than ten upcoming bookings of the business start
\* before the caller's.
C33_NotFoundOnlyWithoutMatchAmongFew ==
  [][ \A p \in Procs :
        ( /\ CancelTaken(p) /\ faults' = faults
          /\ \E r \in CallersUpcoming(p) :
               Cardinality({ q \in CandidateRows(proc'[p].data.business_id) :
                               q.start < r.start }) < 10 )
          => proc'[p].resp.status # "not_found" ]_vars

\* C33's case is reached: a cancel request of a caller whose record is in
\* the store, behind nine other upcoming bookings, has gone on to delete
\* the caller's appointment.
C33_MatchBehindNineSeen ==
  \E p \in Procs :
    /\ proc[p].kind = "cancel"
    /\ proc[p].pc = "cx_delete"
    /\ proc[p].data.name = Ann
    /\ proc[p].loc.gcalId = 201
    /\ Cardinality({ r \in stats : r.name = Bob /\ r.start < proc[p].loc.start }) = 9
    /\ faults = 0


\* ------------------------------------------------------------------- C34

\* Request p is the cancel of booking q: q was answered success, was made
\* with a business_id, a name and an email, and starts at least 60 minutes
\* after the cancel was taken; p asks with the same business_id,
\* calendarId, name and email, and has ended.
CancelsBooking(p, q) ==
  /\ Booked(q)
  /\ proc[q].data.business_id # "" /\ proc[q].data.name # NoText /\ proc[q].data.email # NoText
  /\ proc[p].kind = "cancel"
  /\ Ended(proc[p])
  /\ proc[p].data = CancelOf(q)
  /\ proc[q].loc.start - proc[p].loc.clock >= 60

\* The event and the persisted record of booking q are gone.
BookingGone(q) ==
  /\ ~ \E ev \in cal[proc[q].data.calendarId] : ev.id = proc[q].loc.gcalId
  /\ ~ \E r \in stats : r.appointment_id = proc[q].loc.gcalId
  /\ ~ \E r \in appts : r.id = proc[q].loc.apptId \/ r.gcal_event_id = proc[q].loc.gcalId

\* C34: the cancel of a booking that succeeded through book or through
\* /testdrive ends in success, and the booking's calendar event and its
\* persisted record are then both gone; no dependency call fails, and the
\* business has fewer than 10 upcoming bookings.  (As stated by the claim.)
C34_BookedThenCancelled ==
  \A p \in Procs : \A q \in Procs :
    (CancelsBooking(p, q) /\ faults = 0)
      => (proc[p].resp.status = "success" /\ BookingGone(q))

\* The same, of the bookings made through book alone.
C34_BookedThenCancelledByBook ==
  \A p \in Procs : \A q \in Procs :
    (CancelsBooking(p, q) /\ proc[q].kind = "book" /\ faults = 0)
      => (proc[p].resp.status = "success" /\ BookingGone(q))

\* C34's case is reached: a booking was made and its cancel has ended in
\* success.
C34_RoundTripSeen ==
  \E p \in Procs : \E q \in Procs :
    /\ CancelsBooking(p, q)
    /\ proc[p].resp.status = "success"
    /\ BookingGone(q)
    /\ faults = 0


\* ------------------------------------------------------------------- C35

\* The step in which the calendar delete of cancel request p fails with an
\* error other than 410.
CalDeleteFails(p) ==
  /\ proc[p].kind = "cancel"
  /\ proc[p].pc = "cx_delete"
  /\ proc'[p] # proc[p]
  /\ faults' # faults

\* C35: when the calendar delete for the selected appointment fails with an
\* error other than 410, cancel of part_001 ends with status 'error', the
\* record of that appointment stays in the store, and no other candidate is
\* deleted or attempted: the failing step answers, changes neither store
\* nor calendars, and the answered request takes no further step.
C35_FailedDeleteStopsCancel ==
  /\ [][ \A p \in Procs :
           CalDeleteFails(p)
             => /\ proc'[p].pc = "done"
                /\ proc'[p].resp.status = "error"
                /\ stats' = stats /\ cal' = cal /\ appts' = appts
                /\ \A r \in stats : r.appointment_id = proc[p].loc.gcalId => r \in stats' ]_vars
  /\ [][ \A p \in Procs :
           (proc[p].kind = "cancel" /\ proc[p].pc = "done") => proc'[p] = proc[p] ]_vars

\* C35's case is reached: the calendar delete of a cancel request failed,
\* the request was answered 'error', the record and the event of the
\* selected appointment are there, and so is a later record of the caller.
C35_FailedDeleteSeen ==
  \E p \in Procs :
    /\ proc[p].kind = "cancel"
    /\ proc[p].pc = "done"
    /\ proc[p].resp = Resp(200, "error", "failed_to_cancel")
    /\ faults = 1
    /\ \E r \in stats : r.appointment_id = proc[p].loc.gcalId
    /\ \E ev \in cal[proc[p].data.calendarId] : ev.id = proc[p].loc.gcalId
    /\ \E r \in stats : /\ MatchesV3(r, proc[p].data)
                        /\ r.start > proc[p].loc.start


\* ------------------------------------------------------------------- C36

\* A step of cancel request q, which repeats request p that was answered
\* success.
RepeatSteps(q, p) ==
  /\ q # p
  /\ Cancelled(p)
  /\ proc[q].kind = "cancel"
  /\ proc[q].data = proc[p].data
  /\ proc'[q] # proc[q]

\* C36: a cancel request that repeats one that has succeeded cancels
\* nothing further: no step of it deletes a calendar event or a persisted
\* record, also when the customer holds another upcoming booking under the
\* same name and email or phone.  (As stated by the claim.)
C36_RepeatCancelsNothing ==
  [][ \A q \in Procs : \A p \in Procs :
        RepeatSteps(q, p) => (cal' = cal /\ stats' = stats /\ appts' = appts) ]_vars

\* The same where the customer holds no other upcoming booking and no
\* dependency call has failed: it holds.
C36_RepeatCancelsNothingMore ==
  [][ \A q \in Procs : \A p \in Procs :
        ( /\ RepeatSteps(q, p)
          /\ faults = 0
          /\ ~ \E r \in stats : MatchesV3(r, proc[p].data)
                                  /\ r.appointment_id # proc[p].loc.gcalId )
          => (cal' = cal /\ stats' = stats /\ appts' = appts) ]_vars

\* C36's case is reached: a cancel request succeeded while the customer
\* held another upcoming booking, and the same request, sent again, has
\* ended.
C36_RepeatEndedSeen ==
  \E q \in Procs : \E p \in Procs :
    /\ q # p
    /\ Cancelled(p)
    /\ proc[q].kind = "cancel"
    /\ proc[q].data = proc[p].data
    /\ proc[q].pc = "done"
    /\ proc[q].loc.clock >= proc[p].loc.clock
    /\ proc[q].loc.gcalId \notin {Null, proc[p].loc.gcalId}
    /\ faults = 0


\* ------------------------------------------------------------------- C37

\* Starts of windows on the quarter hours of a day, and their lengths.
QuarterStarts == { FromLocal(At(0, 0) + StepMin * i, Chicago) : i \in 0..95 }

WindowLengths == {15, 30}

\* The window does not cross midnight.
SameDay(start, end, tz) ==
  ToLocal(start, tz) \div MinutesPerDay = ToLocal(end, tz) \div MinutesPerDay

\* Request q is book of the window /testdrive request p asked for, both
\* with their required fields and past the lead-time check.
SameWindow(p, q) ==
  /\ proc[p].kind = "testdrive" /\ proc[p].pc = "done"
  /\ proc[q].kind = "book" /\ proc[q].pc = "done"
  /\ proc[q].data = BookOfWindow(p)
  /\ proc[p].loc.start = proc[q].loc.start /\ proc[p].loc.end = proc[q].loc.end
  /\ proc[p].resp.reason # "too_soon" /\ proc[q].resp.reason # "too_soon"
  /\ SameDay(proc[p].loc.start, proc[p].loc.end, proc[p].data.timezone)

\* C37: for office bounds on the hour and a window that does not cross
\* midnight, the whole-hour rule of book and findNearest accepts the
\* window exactly when the fractional rule of /testdrive accepts it: over
\* the quarter-hour windows of a day (the rules read no state: they are
\* compared before the first request), and in what /testdrive and book
\* answer for one window.
C37_ValidatorsAgree ==
  /\ (\A p \in Procs : proc[p].pc = "idle")
       => \A start \in QuarterStarts : \A len \in WindowLengths :
            \A os \in WholeHours : \A oe \in WholeHours :
              SameDay(start, start + len, Chicago)
                => ( OutsideHoursWholeHour(start, start + len, Chicago, os, oe)
                       <=> OutsideHoursFractional(start, start + len, Chicago, os, oe) )
  /\ \A p \in Procs : \A q \in Procs :
       ( /\ SameWindow(p, q)
         /\ proc[p].data.officeStart \in WholeHours
         /\ proc[p].data.officeEnd \in WholeHours )
         => ( proc[p].resp.reason = "outside_office_hours"
                <=> proc[q].resp.reason = "outside_office_hours" )

\* C37's case is reached: a window that ends a quarter past the closing
\* hour was put to /testdrive and to book, and both turned it away.
C37_PastClosingHourSeen ==
  \E p \in Procs : \E q \in Procs :
    /\ SameWindow(p, q)
    /\ proc[p].data.officeEnd = 1020
    /\ MinuteOfDay(proc[p].loc.end, proc[p].data.timezone) = 1035
    /\ proc[p].resp.reason = "outside_office_hours"
    /\ proc[q].resp.reason = "outside_office_hours"

====
